---- MODULE Spec2Model ----
(***************************************************************************)
(* pdf_compressor: the adaptive parameter search (compressor/strategy.py), *)
(* the splitting protocol (compressor/splitter.py) and their caller        *)
(* (orchestrator.py), as one state machine.  One action is one external    *)
(* tool invocation together with the control flow that follows it up to    *)
(* the next invocation or the return.                                      *)
(*                                                                         *)
(* Sizes are whole megabytes.  The external tools (pdftoppm, tesseract,    *)
(* recode_pdf, qpdf, pdfinfo) and the file system calls whose failure the  *)
(* code handles (shutil.copy2, shutil.rmtree) are the environment: every   *)
(* invocation draws its outcome from the set of outcomes it can have.      *)
(***************************************************************************)
EXTENDS Integers, Sequences, FiniteSets, TLC

---------------------------------------------------------------------------
(* Bounds of the model *)

\* largest size (MB) a produced file is given; 0 stands for "no file"
MaxSize == 4
\* largest value of args.max_splits explored
MaxSplitsArg == 4
\* largest page count pdfinfo reports
MaxPages == 3
\* largest document size (MB) the tier lookup is applied to
MaxTierSize == 60
\* largest document size (MB) the splitting protocol is started on
MaxPlanSize == 260
\* largest page count a partition plan is computed for
MaxPlanPages == 12
\* largest number of documents process_directory finds
MaxFiles == 2

\* document sizes (MB): below every tier, first of tier 1, first of tier 2, tier 3
DocSizes == {1, 2, 10, 60}
\* args.target_size (MB)
Targets == {1, 2}

---------------------------------------------------------------------------
(* compressor/strategy.py: the static tables *)

P(d, b, e) == [dpi |-> d, bg_downsample |-> b, jpeg2000_encoder |-> e]

\* tables in which tier 1 lowers the dpi and then raises it again
STRATEGIESOutOfOrder ==
  [t \in 1..3 |->
     CASE t = 1 -> << P(300, 1, "openjpeg"), P(300, 2, "openjpeg"), P(250, 3, "openjpeg"),
                      P(300, 3, "grok"), P(200, 4, "grok") >>
       [] t = 2 -> << P(300, 2, "openjpeg"), P(300, 3, "grok"), P(300, 4, "openjpeg"),
                      P(250, 4, "grok"), P(200, 4, "openjpeg"), P(150, 5, "grok") >>
       [] t = 3 -> << P(200, 3, "grok"), P(200, 4, "grok"), P(200, 5, "openjpeg"),
                      P(150, 5, "grok"), P(110, 6, "grok") >>]

\* STRATEGIES[tier]['params_sequence'], lines 9-41
STRATEGIES ==
  [t \in 1..3 |->
     CASE t = 1 -> << P(300, 1, "openjpeg"), P(300, 2, "openjpeg"), P(300, 3, "grok"),
                      P(250, 3, "openjpeg"), P(200, 4, "grok") >>
       [] t = 2 -> << P(300, 2, "openjpeg"), P(300, 3, "grok"), P(300, 4, "openjpeg"),
                      P(250, 4, "grok"), P(200, 4, "openjpeg"), P(150, 5, "grok") >>
       [] t = 3 -> << P(200, 3, "grok"), P(200, 4, "grok"), P(200, 5, "openjpeg"),
                      P(150, 5, "grok"), P(110, 6, "grok") >>]

\* run_aggressive_compression's own list; params.get('jpeg2000_encoder', 'openjpeg')
aggressive_params ==
  << P(150, 4, "openjpeg"), P(150, 5, "openjpeg"), P(120, 3, "openjpeg"),
     P(100, 2, "openjpeg") >>

\* the parameter list a search uses: the tier's, or the aggressive one (tier "agg")
params_sequence(t) == IF t \in 1..3 THEN STRATEGIES[t] ELSE aggressive_params

\* presets are indexed from 0, as in the source
Preset(t, i) == params_sequence(t)[i + 1]
NumPresets(t) == Len(params_sequence(t))
\* a last index that stops one preset short of the end of the list
last_indexOffByOne(t) == NumPresets(t) - 2
\* last_index = len(strategy['params_sequence']) - 1
last_index(t) == NumPresets(t) - 1

RECURSIVE MaxOver(_)
MaxOver(S) == IF S = {} THEN 0
              ELSE LET x == CHOOSE y \in S : TRUE
                       m == MaxOver(S \ {x})
                   IN IF x > m THEN x ELSE m

\* artifacts made at the resolution of the list's last preset
max_dpiOfLast(t) == Preset(t, last_index(t)).dpi
\* max_dpi = max(p['dpi'] for p in strategy['params_sequence'])
max_dpi(t) == MaxOver({ params_sequence(t)[j].dpi : j \in 1..NumPresets(t) })

\* a lookup whose first range takes its upper boundary in
determine_tierInclusive(size_mb) ==
  IF 2 <= size_mb /\ size_mb <= 10 THEN 1
  ELSE IF 10 <= size_mb /\ size_mb < 50 THEN 2
  ELSE IF size_mb >= 50 THEN 3
  ELSE 0

determine_tier(size_mb) ==
  IF 2 <= size_mb /\ size_mb < 10 THEN 1
  ELSE IF 10 <= size_mb /\ size_mb < 50 THEN 2
  ELSE IF size_mb >= 50 THEN 3
  ELSE 0

---------------------------------------------------------------------------
(* The size comparisons of the search *)

\* a comparison that rejects a result of exactly the target size
MeetsTargetStrict(size, tgt) == size < tgt
\* result_size_mb <= target_size_mb
MeetsTarget(size, tgt) == size <= tgt

\* thresholds other than the source's: 1.5 x target inclusive, and 2 x target
IsFarAtOrAbove(size, tgt) == 2 * size >= 3 * tgt
IsFarDouble(size, tgt) == size > 2 * tgt
\* result_size_mb > target_size_mb * threshold_factor, threshold_factor = 1.5
IsFar(size, tgt) == 2 * size > 3 * tgt

---------------------------------------------------------------------------
(* Outcomes of the external tools *)

\* reconstruct_pdf returned True and the output file measures `s` MB
\* (get_file_size_mb gives 0 for a file that does not exist)
Ok(s) == [r |-> "true", size |-> s]
\* reconstruct_pdf returned False (run_command caught the tool's error)
Fail == [r |-> "false", size |-> 0]
\* an exception run_command does not catch left the call
Raise == [r |-> "raise", size |-> 0]

\* no reconstruct_pdf invocation yet in this call
NoOutcome == [r |-> "none", size |-> 0]

Outcomes == {Fail, Raise} \cup { Ok(s) : s \in 0..MaxSize }

\* deconstruct_pdf_to_images / analyze_images_to_hocr / split_pdf: the result is
\* usable, or None/False, or an exception run_command does not catch
StepOutcomes == {"ok", "fail", "raise"}

---------------------------------------------------------------------------
(* State *)

VARIABLES
  \* the call's arguments and the document
  docSize,          \* utils.get_file_size_mb(file_path), MB
  target,           \* args.target_size / target_size_mb
  keep,             \* keep_temp_on_failure
  allowSplitting,   \* args.allow_splitting
  copySmall,        \* args.copy_small_files
  maxSplits,        \* args.max_splits
  producer,         \* a deterministic reconstruct_pdf: preset index + 1 -> outcome;
                    \* << >> when every invocation may end in any outcome
  earlier,          \* what an earlier call of run_iterative_compression on the same
                    \* document and target did, when the call is repeated; else << >>
  \* control
  pc,               \* the statement the program is at
  ret,              \* what the call that ended last returned (or raised)
  \* the running search call (run_iterative_compression / run_aggressive_compression)
  tier,             \* determine_tier(original_size_mb)
  artifacts,        \* image_files and hocr_file of this call, and how they were made
  attempts,         \* the reconstruct_pdf invocations of this call, in order:
                    \* which preset, from which statement
  outcome,          \* what the latest reconstruct_pdf invocation gave back
  conservative,     \* what the conservative attempt (the first of the call) gave back
  idx,              \* the loop index (idx of the backtrack loop, i of the scans)
  chosen,           \* chosen_path / the attempt file handed to copy_file
  \* the splitting protocol
  total_pages,      \* pipeline.get_pdf_page_count(pdf_path)
  k,                \* the partition count of the running attempt
  kTried,           \* the partition counts attempted so far, in order
  temp_split_files, \* the extracted page ranges, in order
  split_files,      \* the part numbers of the final files written in this attempt
  part,             \* the loop index of the running phase of try_split_and_compress
  \* the world
  outDir,           \* the files of the output directory
  wsLive,           \* the scratch directories created and not yet released (a stack)
  wsReleased,       \* the scratch directories released so far
  lastCleanup,      \* how the latest release ended: kept, removed, or rmtree failed
  invoked,          \* the functions and tools invoked so far
  \* the batch (orchestrator.process_directory); outside a batch these stay as
  \* they start
  unique_files,     \* the number of documents found, len(unique_files)
  fileIndex,        \* i of enumerate(unique_files, 1): the document being processed
  results,          \* results: one {'file', 'success'} per document processed
  successful_count,
  failed_count

batch == << unique_files, fileIndex, results, successful_count, failed_count >>
\* what no statement of process_file and its callees assigns
inputs == << docSize, target, keep, allowSplitting, copySmall, maxSplits, producer, earlier, batch >>
search == << tier, artifacts, attempts, outcome, conservative, idx, chosen >>
split  == << total_pages, k, kTried, temp_split_files, split_files, part >>
world  == << outDir, wsLive, wsReleased, lastCleanup, invoked >>
vars   == << inputs, pc, ret, search, split, world >>

NoRet == [kind |-> "none", success |-> FALSE, path |-> "none"]
\* return True / return True, final_path
RetTrue(p) == [kind |-> "return", success |-> TRUE, path |-> p]
\* return False / return False, None
RetFalse == [kind |-> "return", success |-> FALSE, path |-> "none"]
\* an exception leaves the call
RetRaise == [kind |-> "raise", success |-> FALSE, path |-> "none"]

NoArtifacts == [images |-> FALSE, hocr |-> FALSE, dpi |-> 0, rasterCalls |-> 0, ocrCalls |-> 0]
NoChoice == [idx |-> -1, size |-> 0]

\* a file of the output directory: its name (kind, part number) and what it holds
\* (the preset whose attempt was copied there, and its size)
File(kind, n, src, size) == [kind |-> kind, part |-> n, src |-> src, size |-> size]

\* utils.copy_file(src, dst): shutil.copy2 inside try/except, the result ignored by
\* every caller.  The directories it can leave: a source that does not exist
\* cannot be copied, and any other copy may still fail.
CopyFile(dir, f, srcExists) ==
  {dir} \cup
  (IF srcExists
   THEN {{ g \in dir : ~(g.kind = f.kind /\ g.part = f.part) } \cup {f}}
   ELSE {})

\* path.unlink() guarded by path.exists()
Unlink(dir, kind, parts) == { g \in dir : ~(g.kind = kind /\ g.part \in parts) }

\* a scratch directory at its release: who created it, whether its call failed
\* (returned False or raised), and whether it was left in place for debugging
Released(owner, r, kept) ==
  [owner |-> owner, failed |-> (r.kind = "raise" \/ ~r.success), kept |-> kept]

\* the finally blocks of strategy.py and splitter.py:
\*   if keep_temp_on_failure: (keep)  else: utils.cleanup_directory(temp_dir_str)
KeepsScratch(r) == keep

\* utils.cleanup_directory(directory_path): shutil.rmtree inside try/except, so a
\* failing deletion is logged and swallowed; the directory is then still on disk
CleanupResults(kept) == IF kept THEN {"kept"} ELSE {"removed", "rmtree_failed"}

\* a reconstruct_pdf whose result is not determined by its arguments: called again
\* for the same document and preset it writes a file one MB larger
ReconstructOutcomesDrift(i) ==
  IF (i + 1) \in DOMAIN producer
  THEN {IF earlier = << >> THEN producer[i + 1] ELSE Ok(producer[i + 1].size + 1)}
  ELSE Outcomes

\* the outcomes one reconstruct_pdf invocation with preset i can have
ReconstructOutcomes(i) ==
  IF (i + 1) \in DOMAIN producer THEN {producer[i + 1]} ELSE Outcomes

Attempt(i, ph) == [idx |-> i, phase |-> ph]

---------------------------------------------------------------------------
(* compressor/strategy.py: run_iterative_compression *)

\* the statements of run_iterative_compression
IterPCs == {"ic_entry", "ic_deconstruct", "ic_ocr", "ic_first", "ic_last", "ic_back",
            "ic_seq", "ic_finally", "ic_done"}

\* an exception that leaves the call without running the finally block
IC_LeaveSkipsFinallyOnRaise(r) ==
  /\ ret' = r
  /\ pc' = (IF r.kind = "raise" THEN "ic_done" ELSE "ic_finally")

\* a return (or an exception) inside the try block: the finally block runs next
IC_Leave(r) == /\ ret' = r
               /\ pc' = "ic_finally"

\* final_path = output_dir / "<stem>_compressed.pdf"; utils.copy_file(c, final_path);
\* return True, final_path
IC_Succeed(c) ==
  /\ chosen' = c
  /\ outDir' \in CopyFile(outDir, File("compressed", 0, c.idx, c.size), c.size > 0)
  /\ IC_Leave(RetTrue("compressed"))

\* lines 58-71: the tier lookup and the scratch directory
IC_Entry ==
  /\ pc = "ic_entry"
  /\ LET t == determine_tier(docSize) IN
     /\ tier' = t
     /\ artifacts' = NoArtifacts
     /\ attempts' = << >>
     /\ outcome' = NoOutcome
     /\ conservative' = NoOutcome
     /\ idx' = 0
     /\ chosen' = NoChoice
     /\ IF t = 0
        THEN /\ ret' = RetFalse
             /\ pc' = "ic_done"
             /\ wsLive' = wsLive
        ELSE /\ ret' = NoRet
             /\ pc' = "ic_deconstruct"
             /\ wsLive' = Append(wsLive, "run_iterative_compression")
  /\ UNCHANGED << inputs, split, outDir, wsReleased, lastCleanup, invoked >>

\* lines 75-78: image_files = pipeline.deconstruct_pdf_to_images(pdf_path, temp_dir, max_dpi)
IC_Deconstruct ==
  /\ pc = "ic_deconstruct"
  /\ \E o \in StepOutcomes :
       /\ artifacts' = [artifacts EXCEPT !.images = (o = "ok"),
                                         !.dpi = max_dpi(tier),
                                         !.rasterCalls = @ + 1]
       /\ IF o = "ok" THEN pc' = "ic_ocr" /\ ret' = ret
          ELSE IF o = "fail" THEN IC_Leave(RetFalse)
          ELSE IC_Leave(RetRaise)
  /\ invoked' = invoked \cup {"pdftoppm"}
  /\ UNCHANGED << inputs, split, tier, attempts, outcome, conservative, idx, chosen, outDir, wsLive, wsReleased, lastCleanup >>

\* a text recognition step whose None result does not end the call
IC_OcrIgnoresFailure ==
  /\ pc = "ic_ocr"
  /\ \E o \in StepOutcomes :
       /\ artifacts' = [artifacts EXCEPT !.hocr = (o = "ok"), !.ocrCalls = @ + 1]
       /\ IF o = "raise" THEN IC_Leave(RetRaise) ELSE pc' = "ic_first" /\ ret' = ret
  /\ invoked' = invoked \cup {"tesseract"}
  /\ UNCHANGED << inputs, split, tier, attempts, outcome, conservative, idx, chosen, outDir, wsLive, wsReleased, lastCleanup >>

\* lines 80-83: hocr_file = pipeline.analyze_images_to_hocr(image_files, temp_dir)
IC_Ocr ==
  /\ pc = "ic_ocr"
  /\ \E o \in StepOutcomes :
       /\ artifacts' = [artifacts EXCEPT !.hocr = (o = "ok"), !.ocrCalls = @ + 1]
       /\ IF o = "ok" THEN pc' = "ic_first" /\ ret' = ret
          ELSE IF o = "fail" THEN IC_Leave(RetFalse)
          ELSE IC_Leave(RetRaise)
  /\ invoked' = invoked \cup {"tesseract"}
  /\ UNCHANGED << inputs, split, tier, attempts, outcome, conservative, idx, chosen, outDir, wsLive, wsReleased, lastCleanup >>

\* a conservative attempt whose failed reconstruction ends the search
IC_FirstGivesUpOnError ==
  /\ pc = "ic_first"
  /\ \E o \in ReconstructOutcomes(0) :
       /\ attempts' = Append(attempts, Attempt(0, "first"))
       /\ outcome' = o
       /\ conservative' = o
       /\ IF o.r = "raise"
          THEN IC_Leave(RetRaise) /\ UNCHANGED << idx, chosen, outDir >>
          ELSE IF o.r = "false"
          THEN IC_Leave(RetFalse) /\ UNCHANGED << idx, chosen, outDir >>
          ELSE IF MeetsTarget(o.size, target)
          THEN IC_Succeed([idx |-> 0, size |-> o.size]) /\ idx' = idx
          ELSE IF IsFar(o.size, target)
          THEN pc' = "ic_last" /\ UNCHANGED << ret, idx, chosen, outDir >>
          ELSE pc' = "ic_seq" /\ idx' = 1 /\ UNCHANGED << ret, chosen, outDir >>
  /\ invoked' = invoked \cup {"recode_pdf"}
  /\ UNCHANGED << inputs, split, tier, artifacts, wsLive, wsReleased, lastCleanup >>

\* lines 87-104 and 146-148: the conservative attempt, params_sequence[0]
IC_First ==
  /\ pc = "ic_first"
  /\ \E o \in ReconstructOutcomes(0) :
       /\ attempts' = Append(attempts, Attempt(0, "first"))
       /\ outcome' = o
       /\ conservative' = o
       /\ IF o.r = "raise"
          THEN IC_Leave(RetRaise) /\ UNCHANGED << idx, chosen, outDir >>
          ELSE IF o.r = "false"
          THEN pc' = "ic_seq" /\ idx' = 1 /\ UNCHANGED << ret, chosen, outDir >>
          ELSE IF MeetsTarget(o.size, target)
          THEN IC_Succeed([idx |-> 0, size |-> o.size]) /\ idx' = idx
          ELSE IF IsFar(o.size, target)
          THEN pc' = "ic_last" /\ UNCHANGED << ret, idx, chosen, outDir >>
          ELSE pc' = "ic_seq" /\ idx' = 1 /\ UNCHANGED << ret, chosen, outDir >>
  /\ invoked' = invoked \cup {"recode_pdf"}
  /\ UNCHANGED << inputs, split, tier, artifacts, wsLive, wsReleased, lastCleanup >>

\* a backtrack loop that leaves out the preset next to the last
BacktrackStartSkipsOne(t) == last_index(t) - 2
\* the first index of the backtrack loop: range(last_index - 1, -1, -1)
BacktrackStart(t) == last_index(t) - 1
\* the (excluded) end of the backtrack loop: range(last_index - 1, -1, -1)
BacktrackStop == -1

\* an aggressive attempt given up also when its size equals the target
AggressiveMissesAtTarget(o) == o.r = "false" \/ o.size >= target
\* an aggressive attempt given up only when reconstruct_pdf returns False
AggressiveMissesOnlyOnError(o) == o.r = "false"
\* lines 110-118: the aggressive attempt is given up:
\*   if not pipeline.reconstruct_pdf(...): return False, None
\*   if last_size > target_size_mb: return False, None
AggressiveMisses(o) == o.r = "false" \/ o.size > target

\* an aggressive attempt that is copied to the output directory as soon as it meets
\* the target, before the backtrack loop
IC_LastCopiesAtOnce ==
  /\ pc = "ic_last"
  /\ \E o \in ReconstructOutcomes(last_index(tier)) :
       /\ attempts' = Append(attempts, Attempt(last_index(tier), "last"))
       /\ outcome' = o
       /\ conservative' = conservative
       /\ IF o.r = "raise"
          THEN IC_Leave(RetRaise) /\ UNCHANGED << idx, chosen, outDir >>
          ELSE IF AggressiveMisses(o)
          THEN IC_Leave(RetFalse) /\ UNCHANGED << idx, chosen, outDir >>
          ELSE LET c == [idx |-> last_index(tier), size |-> o.size] IN
               IF BacktrackStart(tier) > BacktrackStop
               THEN /\ pc' = "ic_back"
                    /\ idx' = BacktrackStart(tier)
                    /\ chosen' = c
                    /\ outDir' \in CopyFile(outDir, File("compressed", 0, c.idx, c.size), c.size > 0)
                    /\ ret' = ret
               ELSE IC_Succeed(c) /\ idx' = idx
  /\ invoked' = invoked \cup {"recode_pdf"}
  /\ UNCHANGED << inputs, split, tier, artifacts, wsLive, wsReleased, lastCleanup >>

\* lines 105-123: the most aggressive attempt, params_sequence[last_index]
IC_Last ==
  /\ pc = "ic_last"
  /\ \E o \in ReconstructOutcomes(last_index(tier)) :
       /\ attempts' = Append(attempts, Attempt(last_index(tier), "last"))
       /\ outcome' = o
       /\ conservative' = conservative
       /\ IF o.r = "raise"
          THEN IC_Leave(RetRaise) /\ UNCHANGED << idx, chosen, outDir >>
          ELSE IF AggressiveMisses(o)
          THEN IC_Leave(RetFalse) /\ UNCHANGED << idx, chosen, outDir >>
          ELSE LET c == [idx |-> last_index(tier), size |-> o.size] IN
               IF BacktrackStart(tier) > BacktrackStop
               THEN /\ pc' = "ic_back"
                    /\ idx' = BacktrackStart(tier)
                    /\ chosen' = c
                    /\ UNCHANGED << ret, outDir >>
               ELSE IC_Succeed(c) /\ idx' = idx
  /\ invoked' = invoked \cup {"recode_pdf"}
  /\ UNCHANGED << inputs, split, tier, artifacts, wsLive, wsReleased, lastCleanup >>

\* lines 124-144: one step of the backtrack loop, then (loop left) the copy
IC_Back ==
  /\ pc = "ic_back"
  /\ \E o \in ReconstructOutcomes(idx) :
       /\ attempts' = Append(attempts, Attempt(idx, "back"))
       /\ outcome' = o
       /\ conservative' = conservative
       /\ IF o.r = "raise"
          THEN IC_Leave(RetRaise) /\ UNCHANGED << idx, chosen, outDir >>
          ELSE IF o.r = "false"
          THEN IC_Succeed(chosen) /\ idx' = idx
          ELSE IF MeetsTarget(o.size, target)
          THEN LET c == [idx |-> idx, size |-> o.size] IN
               IF idx - 1 > BacktrackStop
               THEN /\ chosen' = c
                    /\ idx' = idx - 1
                    /\ UNCHANGED << pc, ret, outDir >>
               ELSE IC_Succeed(c) /\ idx' = idx
          ELSE IC_Succeed(chosen) /\ idx' = idx
  /\ invoked' = invoked \cup {"recode_pdf"}
  /\ UNCHANGED << inputs, split, tier, artifacts, wsLive, wsReleased, lastCleanup >>

\* a scan that gives up before the last preset of the list
IC_SeqNextStopsEarly ==
  IF idx + 2 < NumPresets(tier)
  THEN idx' = idx + 1 /\ UNCHANGED << pc, ret >>
  ELSE IC_Leave(RetFalse) /\ idx' = idx

\* what follows a scan step that did not return: the next index, or the end of the
\* loop and return False, None
IC_SeqNext ==
  IF idx + 1 < NumPresets(tier)
  THEN idx' = idx + 1 /\ UNCHANGED << pc, ret >>
  ELSE IC_Leave(RetFalse) /\ idx' = idx

\* lines 150-172: one step of the linear scan, i in range(1, len(params_sequence));
\* the body is inside try/except Exception: continue
IC_Seq ==
  /\ pc = "ic_seq"
  /\ \E o \in ReconstructOutcomes(idx) :
       /\ attempts' = Append(attempts, Attempt(idx, "seq"))
       /\ outcome' = o
       /\ conservative' = conservative
       /\ IF o.r = "true" /\ MeetsTarget(o.size, target)
          THEN IC_Succeed([idx |-> idx, size |-> o.size]) /\ idx' = idx
          ELSE IC_SeqNext /\ UNCHANGED << chosen, outDir >>
  /\ invoked' = invoked \cup {"recode_pdf"}
  /\ UNCHANGED << inputs, split, tier, artifacts, wsLive, wsReleased, lastCleanup >>

\* a finally block out of which a failed deletion is raised
IC_FinallyRaisesOnFailure ==
  /\ pc = "ic_finally"
  /\ wsReleased' = wsReleased \cup {Released("run_iterative_compression", ret, KeepsScratch(ret))}
  /\ lastCleanup' \in CleanupResults(KeepsScratch(ret))
  /\ ret' = (IF lastCleanup' = "rmtree_failed" THEN RetRaise ELSE ret)
  /\ wsLive' = SubSeq(wsLive, 1, Len(wsLive) - 1)
  /\ pc' = "ic_done"
  /\ UNCHANGED << inputs, search, split, outDir, invoked >>

\* lines 174-179: the finally block, then the call ends
IC_Finally ==
  /\ pc = "ic_finally"
  /\ wsReleased' = wsReleased \cup {Released("run_iterative_compression", ret, KeepsScratch(ret))}
  /\ lastCleanup' \in CleanupResults(KeepsScratch(ret))
  /\ wsLive' = SubSeq(wsLive, 1, Len(wsLive) - 1)
  /\ pc' = "ic_done"
  /\ UNCHANGED << inputs, ret, search, split, outDir, invoked >>

\* what one call of run_iterative_compression did: the artifacts it built, its
\* reconstruct_pdf invocations in order, what it returned and the attempt it chose
RunRecord == [artifacts |-> artifacts, attempts |-> attempts, ret |-> ret, chosen |-> chosen]

\* the caller calls run_iterative_compression(pdf_path, output_dir, target_size_mb)
\* once more with the same arguments after the first call has ended; the output
\* directory is as the first call left it, the account of scratch directories and
\* invocations starts anew for the second call
IC_Again ==
  /\ pc = "ic_done"
  /\ earlier = << >>
  /\ earlier' = << RunRecord >>
  /\ pc' = "ic_entry"
  /\ wsReleased' = {}
  /\ lastCleanup' = "none"
  /\ invoked' = {}
  /\ UNCHANGED << docSize, target, keep, allowSplitting, copySmall, maxSplits, producer,
                  batch, ret, search, split, outDir, wsLive >>

---------------------------------------------------------------------------
(* compressor/strategy.py: run_aggressive_compression (one split partition) *)

AggPCs == {"ac_entry", "ac_deconstruct", "ac_ocr", "ac_seq", "ac_finally", "ac_done"}

AC_Leave(r) == /\ ret' = r
               /\ pc' = "ac_finally"

\* lines 188-198: the scratch directory of this call
AC_Entry ==
  /\ pc = "ac_entry"
  /\ artifacts' = NoArtifacts
  /\ attempts' = << >>
  /\ outcome' = NoOutcome
  /\ conservative' = NoOutcome
  /\ idx' = 0
  /\ chosen' = NoChoice
  /\ ret' = NoRet
  /\ wsLive' = Append(wsLive, "run_aggressive_compression")
  /\ pc' = "ac_deconstruct"
  /\ UNCHANGED << inputs, split, tier, outDir, wsReleased, lastCleanup, invoked >>

\* lines 201-204
AC_Deconstruct ==
  /\ pc = "ac_deconstruct"
  /\ \E o \in StepOutcomes :
       /\ artifacts' = [artifacts EXCEPT !.images = (o = "ok"),
                                         !.dpi = MaxOver({ aggressive_params[j].dpi :
                                                           j \in 1..Len(aggressive_params) }),
                                         !.rasterCalls = @ + 1]
       /\ IF o = "ok" THEN pc' = "ac_ocr" /\ ret' = ret
          ELSE IF o = "fail" THEN AC_Leave(RetFalse)
          ELSE AC_Leave(RetRaise)
  /\ invoked' = invoked \cup {"pdftoppm"}
  /\ UNCHANGED << inputs, split, tier, attempts, outcome, conservative, idx, chosen, outDir, wsLive, wsReleased, lastCleanup >>

\* lines 206-209
AC_Ocr ==
  /\ pc = "ac_ocr"
  /\ \E o \in StepOutcomes :
       /\ artifacts' = [artifacts EXCEPT !.hocr = (o = "ok"), !.ocrCalls = @ + 1]
       /\ IF o = "ok" THEN pc' = "ac_seq" /\ ret' = ret
          ELSE IF o = "fail" THEN AC_Leave(RetFalse)
          ELSE AC_Leave(RetRaise)
  /\ invoked' = invoked \cup {"tesseract"}
  /\ UNCHANGED << inputs, split, tier, attempts, outcome, conservative, idx, chosen, outDir, wsLive, wsReleased, lastCleanup >>

\* a scan of aggressive_params that jumps to the last entry after its first miss
AC_SeqJumpsToLast ==
  /\ pc = "ac_seq"
  /\ \E o \in Outcomes :
       /\ attempts' = Append(attempts, Attempt(idx, "aggressive"))
       /\ outcome' = o
       /\ conservative' = conservative
       /\ IF o.r = "true" /\ MeetsTarget(o.size, target)
          THEN /\ chosen' = [idx |-> idx, size |-> o.size]
               /\ outDir' \in CopyFile(outDir, File("part_compressed", part + 1, idx, o.size),
                                        o.size > 0)
               /\ AC_Leave(RetTrue("part_compressed"))
               /\ idx' = idx
          ELSE /\ IF idx + 1 < Len(aggressive_params)
                  THEN idx' = Len(aggressive_params) - 1 /\ UNCHANGED << pc, ret >>
                  ELSE AC_Leave(RetFalse) /\ idx' = idx
               /\ UNCHANGED << chosen, outDir >>
  /\ invoked' = invoked \cup {"recode_pdf"}
  /\ UNCHANGED << inputs, split, tier, artifacts, wsLive, wsReleased, lastCleanup >>

\* lines 211-232: one step of the scan of aggressive_params; the body is inside
\* try/except Exception: continue.  The winner is copied to
\* output_dir / "<part stem>_compressed.pdf".
AC_Seq ==
  /\ pc = "ac_seq"
  /\ \E o \in Outcomes :
       /\ attempts' = Append(attempts, Attempt(idx, "aggressive"))
       /\ outcome' = o
       /\ conservative' = conservative
       /\ IF o.r = "true" /\ MeetsTarget(o.size, target)
          THEN /\ chosen' = [idx |-> idx, size |-> o.size]
               /\ outDir' \in CopyFile(outDir, File("part_compressed", part + 1, idx, o.size),
                                        o.size > 0)
               /\ AC_Leave(RetTrue("part_compressed"))
               /\ idx' = idx
          ELSE /\ IF idx + 1 < Len(aggressive_params)
                  THEN idx' = idx + 1 /\ UNCHANGED << pc, ret >>
                  ELSE AC_Leave(RetFalse) /\ idx' = idx
               /\ UNCHANGED << chosen, outDir >>
  /\ invoked' = invoked \cup {"recode_pdf"}
  /\ UNCHANGED << inputs, split, tier, artifacts, wsLive, wsReleased, lastCleanup >>

\* lines 233-237: the finally block, then the call ends
AC_Finally ==
  /\ pc = "ac_finally"
  /\ wsReleased' = wsReleased \cup {Released("run_aggressive_compression", ret, KeepsScratch(ret))}
  /\ lastCleanup' \in CleanupResults(KeepsScratch(ret))
  /\ wsLive' = SubSeq(wsLive, 1, Len(wsLive) - 1)
  /\ pc' = "ac_done"
  /\ UNCHANGED << inputs, ret, search, split, outDir, invoked >>

---------------------------------------------------------------------------
(* compressor/splitter.py *)

\* math.ceil(a / b) for whole a >= 0, b > 0
Ceil(a, b) == (a + b - 1) \div b

Min(a, b) == IF a < b THEN a ELSE b

\* a first partition count estimated with chunks of 30 MB
calculate_split_strategyChunk30(total_size_mb, max_splits) ==
  LET initial_k == Min(max_splits, Ceil(total_size_mb, 30))
  IN IF initial_k < 2 THEN 2 ELSE initial_k

\* a first partition count that is not held to max_splits
calculate_split_strategyUnclamped(total_size_mb, max_splits) ==
  LET initial_k == Ceil(total_size_mb, 25)
  IN IF initial_k < 2 THEN 2 ELSE initial_k

\* estimated_chunk_size = 25
calculate_split_strategy(total_size_mb, max_splits) ==
  LET initial_k == Min(max_splits, Ceil(total_size_mb, 25))
  IN IF initial_k < 2 THEN 2 ELSE initial_k

\* a partition length rounded down instead of up
pages_per_splitFloor(n, parts) == n \div parts
\* pages_per_split = math.ceil(total_pages / k)
pages_per_split(n, parts) == Ceil(n, parts)
\* start_page = i * pages_per_split + 1
start_page(i, n, parts) == i * pages_per_split(n, parts) + 1
\* end_page = min((i + 1) * pages_per_split, total_pages)
end_page(i, n, parts) == Min((i + 1) * pages_per_split(n, parts), n)

\* the part numbers of split_files
PartsOf(files) == { files[j] : j \in 1..Len(files) }

\* a failure path that empties the output directory
CleanSplitFilesEmptiesDir(dir, files) == {}
\* a failure path that leaves the final files of the attempt where they are
KeepSplitFiles(dir, files) == dir
\* for success_file in split_files: if success_file.exists(): success_file.unlink()
CleanSplitFiles(dir, files) == Unlink(dir, "part", PartsOf(files))

\* a protocol that goes on to plan and split whatever the page count is
SP_EntryIgnoresZeroPages ==
  /\ pc = "sp_entry"
  /\ \E n \in 0..MaxPages :
       /\ total_pages' = n
       /\ LET initial_k == calculate_split_strategy(docSize, maxSplits) IN
          IF initial_k <= maxSplits
          THEN /\ k' = initial_k
               /\ pc' = "ts_entry"
               /\ ret' = ret
          ELSE /\ ret' = RetFalse
               /\ pc' = "sp_done"
               /\ k' = k
  /\ invoked' = invoked \cup {"pdfinfo"}
  /\ UNCHANGED << inputs, search, kTried, temp_split_files, split_files, part,
                  outDir, wsLive, wsReleased, lastCleanup >>

\* run_splitting_protocol, lines 45-60: the page count, the first partition count
SP_Entry ==
  /\ pc = "sp_entry"
  /\ \E n \in 0..MaxPages :
       /\ total_pages' = n
       /\ IF n = 0
          THEN /\ ret' = RetFalse
               /\ pc' = "sp_done"
               /\ k' = k
          ELSE LET initial_k == calculate_split_strategy(docSize, maxSplits) IN
               IF initial_k <= maxSplits
               THEN /\ k' = initial_k
                    /\ pc' = "ts_entry"
                    /\ ret' = ret
               ELSE /\ ret' = RetFalse
                    /\ pc' = "sp_done"
                    /\ k' = k
  /\ invoked' = invoked \cup {"pdfinfo"}
  /\ UNCHANGED << inputs, search, kTried, temp_split_files, split_files, part,
                  outDir, wsLive, wsReleased, lastCleanup >>

TS_Leave(r) == /\ ret' = r
               /\ pc' = "ts_finally"

\* try_split_and_compress, lines 77-83
TS_Entry ==
  /\ pc = "ts_entry"
  /\ kTried' = Append(kTried, k)
  /\ temp_split_files' = << >>
  /\ split_files' = << >>
  /\ part' = 0
  /\ wsLive' = Append(wsLive, "try_split_and_compress")
  /\ pc' = "ts_split"
  /\ ret' = NoRet
  /\ UNCHANGED << inputs, search, total_pages, k, outDir, wsReleased, lastCleanup, invoked >>

\* whether the extraction loop runs its body for index i:
\* for i in range(k): ... if start_page > total_pages: break
SplitLoopRuns(i) == i < k /\ start_page(i, total_pages, k) <= total_pages

\* an extraction loop that passes over a page range qpdf could not extract
TS_SplitSkipsFailedPart ==
  /\ pc = "ts_split"
  /\ SplitLoopRuns(part)
  /\ \E o \in StepOutcomes :
       /\ temp_split_files' =
            (IF o = "ok"
             THEN Append(temp_split_files,
                         << start_page(part, total_pages, k), end_page(part, total_pages, k) >>)
             ELSE temp_split_files)
       /\ IF SplitLoopRuns(part + 1)
          THEN part' = part + 1 /\ pc' = pc
          ELSE part' = 0 /\ pc' = (IF temp_split_files' = << >> THEN "ts_finally" ELSE "ac_entry")
       /\ ret' = (IF pc' = "ts_finally" THEN RetTrue("none") ELSE ret)
       /\ outDir' = outDir
  /\ invoked' = invoked \cup {"qpdf"}
  /\ UNCHANGED << inputs, search, total_pages, k, kTried, split_files, wsLive, wsReleased, lastCleanup >>

\* lines 87-102: one step of the extraction loop; once the loop is left the
\* compression loop starts with the first extracted part
TS_Split ==
  /\ pc = "ts_split"
  /\ SplitLoopRuns(part)
  /\ \E o \in StepOutcomes :
       IF o = "ok"
       THEN /\ temp_split_files' =
                 Append(temp_split_files,
                        << start_page(part, total_pages, k), end_page(part, total_pages, k) >>)
            /\ IF SplitLoopRuns(part + 1)
               THEN part' = part + 1 /\ pc' = pc
               ELSE part' = 0 /\ pc' = "ac_entry"
            /\ UNCHANGED << ret, outDir >>
       ELSE IF o = "fail"
       THEN TS_Leave(RetFalse) /\ UNCHANGED << temp_split_files, part, outDir >>
       ELSE /\ outDir' = CleanSplitFiles(outDir, split_files)
            /\ TS_Leave(RetFalse)
            /\ UNCHANGED << temp_split_files, part >>
  /\ invoked' = invoked \cup {"qpdf"}
  /\ UNCHANGED << inputs, search, total_pages, k, kTried, split_files, wsLive, wsReleased, lastCleanup >>

\* lines 114-125: the part was compressed: copy it to "<stem>_part<i+1>.pdf" and
\* delete "<part stem>_compressed.pdf" if it exists
MovePart(dir, n) ==
  { Unlink(d, "part_compressed", {n}) :
      d \in CopyFile(dir, File("part", n, -1, 0),
                     \E g \in dir : g.kind = "part_compressed" /\ g.part = n) }

\* lines 105-145: what follows the return of run_aggressive_compression for the
\* part with index `part`
TS_AfterCompress ==
  /\ pc = "ac_done"
  /\ artifacts' = NoArtifacts
  /\ attempts' = << >>
  /\ outcome' = NoOutcome
  /\ conservative' = NoOutcome
  /\ idx' = 0
  /\ chosen' = NoChoice
  /\ IF ret.kind = "return" /\ ret.success
     THEN /\ outDir' \in MovePart(outDir, part + 1)
          /\ split_files' = Append(split_files, part + 1)
          /\ IF part + 1 < Len(temp_split_files)
             THEN part' = part + 1 /\ pc' = "ac_entry" /\ ret' = NoRet
             ELSE part' = part /\ TS_Leave(RetTrue("none"))
     ELSE /\ outDir' = CleanSplitFiles(outDir, split_files)
          /\ TS_Leave(RetFalse)
          /\ UNCHANGED << split_files, part >>
  /\ UNCHANGED << inputs, tier, total_pages, k, kTried, temp_split_files,
                  wsLive, wsReleased, lastCleanup, invoked >>

\* lines 146-153: the finally block, then the call ends
TS_Finally ==
  /\ pc = "ts_finally"
  /\ wsReleased' = wsReleased \cup {Released("try_split_and_compress", ret, KeepsScratch(ret))}
  /\ lastCleanup' \in CleanupResults(KeepsScratch(ret))
  /\ wsLive' = SubSeq(wsLive, 1, Len(wsLive) - 1)
  /\ pc' = "ts_done"
  /\ UNCHANGED << inputs, ret, search, split, outDir, invoked >>

\* a protocol whose loop runs one partition count beyond max_splits
SP_AfterAttemptOneTooMany ==
  /\ pc = "ts_done"
  /\ IF ret.success
     THEN ret' = RetTrue("none") /\ pc' = "sp_done" /\ k' = k
     ELSE IF k + 1 <= maxSplits + 1
     THEN k' = k + 1 /\ pc' = "ts_entry" /\ ret' = NoRet
     ELSE ret' = RetFalse /\ pc' = "sp_done" /\ k' = k
  /\ UNCHANGED << inputs, search, total_pages, kTried, temp_split_files, split_files,
                  part, world >>

\* a protocol that gives up at the first partition count that fails
SP_AfterAttemptGivesUp ==
  /\ pc = "ts_done"
  /\ ret' = (IF ret.success THEN RetTrue("none") ELSE RetFalse)
  /\ pc' = "sp_done"
  /\ k' = k
  /\ UNCHANGED << inputs, search, total_pages, kTried, temp_split_files, split_files,
                  part, world >>

\* run_splitting_protocol, lines 60-71: for k in range(initial_k, max_splits + 1)
SP_AfterAttempt ==
  /\ pc = "ts_done"
  /\ IF ret.success
     THEN ret' = RetTrue("none") /\ pc' = "sp_done" /\ k' = k
     ELSE IF k + 1 <= maxSplits
     THEN k' = k + 1 /\ pc' = "ts_entry" /\ ret' = NoRet
     ELSE ret' = RetFalse /\ pc' = "sp_done" /\ k' = k
  /\ UNCHANGED << inputs, search, total_pages, kTried, temp_split_files, split_files,
                  part, world >>

---------------------------------------------------------------------------
(* orchestrator.py: process_file *)

\* lines 14-33: the size check, then the call of run_iterative_compression
PF_Entry ==
  /\ pc = "pf_entry"
  /\ IF docSize < target
     THEN /\ IF copySmall
             THEN outDir' \in CopyFile(outDir, File("original", 0, -1, docSize), TRUE)
             ELSE outDir' = outDir
          /\ ret' = RetTrue("none")
          /\ pc' = "pf_done"
          /\ invoked' = invoked
     ELSE /\ pc' = "ic_entry"
          /\ invoked' = invoked \cup {"run_iterative_compression"}
          /\ UNCHANGED << ret, outDir >>
  /\ UNCHANGED << inputs, search, split, wsLive, wsReleased, lastCleanup >>

\* lines 35-57: after the search; an exception out of it is caught by
\* except Exception: return False
PF_AfterSearch ==
  /\ pc = "ic_done"
  /\ tier' = 0
  /\ artifacts' = NoArtifacts
  /\ attempts' = << >>
  /\ outcome' = NoOutcome
  /\ conservative' = NoOutcome
  /\ idx' = 0
  /\ chosen' = NoChoice
  /\ IF ret.kind = "raise"
     THEN ret' = RetFalse /\ pc' = "pf_done" /\ invoked' = invoked
     ELSE IF ret.success
     THEN ret' = RetTrue("none") /\ pc' = "pf_done" /\ invoked' = invoked
     ELSE IF allowSplitting
     THEN /\ pc' = "sp_entry"
          /\ ret' = NoRet
          /\ invoked' = invoked \cup {"run_splitting_protocol"}
     ELSE ret' = RetFalse /\ pc' = "pf_done" /\ invoked' = invoked
  /\ UNCHANGED << inputs, split, outDir, wsLive, wsReleased, lastCleanup >>

\* lines 45-50: after the splitting protocol
PF_AfterSplit ==
  /\ pc = "sp_done"
  /\ ret' = IF ret.success THEN RetTrue("none") ELSE RetFalse
  /\ pc' = "pf_done"
  /\ UNCHANGED << inputs, search, split, world >>

---------------------------------------------------------------------------
(* manual_mode.py: run_single_manual *)

ManualPCs == {"sm_entry", "sm_deconstruct", "sm_ocr", "sm_reconstruct", "sm_finally", "sm_done"}

SM_Leave(r) == /\ ret' = r
               /\ pc' = "sm_finally"

\* lines 33-35: temp_dir_str = utils.create_temp_directory(); success = False
SM_Entry ==
  /\ pc = "sm_entry"
  /\ wsLive' = Append(wsLive, "run_single_manual")
  /\ artifacts' = NoArtifacts
  /\ attempts' = << >>
  /\ outcome' = NoOutcome
  /\ ret' = NoRet
  /\ pc' = "sm_deconstruct"
  /\ UNCHANGED << inputs, split, tier, conservative, idx, chosen, outDir, wsReleased,
                  lastCleanup, invoked >>

\* lines 37-41: image_files = pipeline.deconstruct_pdf_to_images(pdf_path, temp_dir, dpi)
SM_Deconstruct ==
  /\ pc = "sm_deconstruct"
  /\ \E o \in StepOutcomes :
       /\ artifacts' = [artifacts EXCEPT !.images = (o = "ok"), !.rasterCalls = @ + 1]
       /\ IF o = "ok" THEN pc' = "sm_ocr" /\ ret' = ret
          ELSE IF o = "fail" THEN SM_Leave(RetFalse)
          ELSE SM_Leave(RetRaise)
  /\ invoked' = invoked \cup {"pdftoppm"}
  /\ UNCHANGED << inputs, split, tier, attempts, outcome, conservative, idx, chosen,
                  outDir, wsLive, wsReleased, lastCleanup >>

\* lines 43-47: hocr_file = pipeline.analyze_images_to_hocr(image_files, temp_dir)
SM_Ocr ==
  /\ pc = "sm_ocr"
  /\ \E o \in StepOutcomes :
       /\ artifacts' = [artifacts EXCEPT !.hocr = (o = "ok"), !.ocrCalls = @ + 1]
       /\ IF o = "ok" THEN pc' = "sm_reconstruct" /\ ret' = ret
          ELSE IF o = "fail" THEN SM_Leave(RetFalse)
          ELSE SM_Leave(RetRaise)
  /\ invoked' = invoked \cup {"tesseract"}
  /\ UNCHANGED << inputs, split, tier, attempts, outcome, conservative, idx, chosen,
                  outDir, wsLive, wsReleased, lastCleanup >>

\* lines 55-68: success = pipeline.reconstruct_pdf(..., params, dest_path), written
\* straight to the destination; return True if success, else return False
SM_Reconstruct ==
  /\ pc = "sm_reconstruct"
  /\ \E o \in Outcomes :
       /\ attempts' = Append(attempts, Attempt(0, "manual"))
       /\ outcome' = o
       /\ outDir' = (IF o.r = "true" /\ o.size > 0
                     THEN { g \in outDir : g.kind # "manual" } \cup {File("manual", 0, 0, o.size)}
                     ELSE outDir)
       /\ IF o.r = "raise" THEN SM_Leave(RetRaise)
          ELSE IF o.r = "true" THEN SM_Leave(RetTrue("manual"))
          ELSE SM_Leave(RetFalse)
  /\ invoked' = invoked \cup {"recode_pdf"}
  /\ UNCHANGED << inputs, split, tier, artifacts, conservative, idx, chosen, wsLive,
                  wsReleased, lastCleanup >>

\* lines 69-72: if not (keep_temp_on_failure and not success): cleanup; success is
\* True only when reconstruct_pdf returned True
KeepsScratchManual(r) == keep /\ ~(r.kind = "return" /\ r.success)

SM_Finally ==
  /\ pc = "sm_finally"
  /\ wsReleased' = wsReleased \cup {Released("run_single_manual", ret, KeepsScratchManual(ret))}
  /\ lastCleanup' \in CleanupResults(KeepsScratchManual(ret))
  /\ wsLive' = SubSeq(wsLive, 1, Len(wsLive) - 1)
  /\ pc' = "sm_done"
  /\ UNCHANGED << inputs, ret, search, split, outDir, invoked >>

---------------------------------------------------------------------------
(* compressor/utils.py: run_command *)

\* the statements that start an external tool and wait for it
ToolPCs == {"ic_deconstruct", "ic_ocr", "ic_first", "ic_last", "ic_back", "ic_seq",
            "ac_deconstruct", "ac_ocr", "ac_seq", "ts_split", "sp_entry"}

\* subprocess.run(command, check=True, capture_output=True, ...) is called without
\* timeout=, so it waits for the child for as long as the child runs: a tool that
\* never exits leaves the caller in this call for good
RunCommandNeverReturns ==
  /\ pc \in ToolPCs
  /\ pc' = "blocked"
  /\ UNCHANGED << inputs, ret, search, split, world >>

---------------------------------------------------------------------------
(* orchestrator.py: process_directory *)

\* line 89: process_file(pdf_file, args) is called for document i.  Each document
\* has its own size and its own output files and scratch directories, so the
\* record of the world starts afresh with it.
PD_Start(i) ==
  /\ fileIndex' = i
  /\ docSize' \in DocSizes
  /\ pc' = "pf_entry"
  /\ ret' = NoRet
  /\ outDir' = {}
  /\ wsReleased' = {}
  /\ lastCleanup' = "none"
  /\ invoked' = {}
  /\ UNCHANGED << unique_files, target, keep, allowSplitting, copySmall, maxSplits,
                  producer, earlier, search, split, wsLive >>

\* lines 65-89: the documents found; none: return []
PD_Entry ==
  /\ pc = "pd_entry"
  /\ results' = << >>
  /\ successful_count' = 0
  /\ failed_count' = 0
  /\ IF unique_files = 0
     THEN /\ pc' = "pd_done"
          /\ UNCHANGED << unique_files, fileIndex, docSize, target, keep, allowSplitting,
                          copySmall, maxSplits, producer, earlier, ret, search, split, world >>
     ELSE PD_Start(1)

\* what lines 90-98 record for the document just processed
Tally(success) ==
  /\ results' = Append(results, [file |-> fileIndex, success |-> success])
  /\ successful_count' = (IF success THEN successful_count + 1 ELSE successful_count)
  /\ failed_count' = (IF success THEN failed_count ELSE failed_count + 1)

\* a batch that ends at the first document that fails
PD_AfterFileStopsOnFailure ==
  /\ pc = "pf_done"
  /\ Tally(ret.success)
  /\ IF fileIndex < unique_files /\ ret.success
     THEN PD_Start(fileIndex + 1)
     ELSE /\ pc' = "pd_done"
          /\ UNCHANGED << unique_files, fileIndex, docSize, target, keep, allowSplitting,
                          copySmall, maxSplits, producer, earlier, ret, search, split, world >>

\* lines 87-98 and 116: the result of process_file is recorded and counted, then
\* the next document is taken up, or the batch ends with return results
PD_AfterFile ==
  /\ pc = "pf_done"
  /\ Tally(ret.success)
  /\ IF fileIndex < unique_files
     THEN PD_Start(fileIndex + 1)
     ELSE /\ pc' = "pd_done"
          /\ UNCHANGED << unique_files, fileIndex, docSize, target, keep, allowSplitting,
                          copySmall, maxSplits, producer, earlier, ret, search, split, world >>

---------------------------------------------------------------------------
(* Specifications *)

\* main.py: --max-splits, default=4
DefaultMaxSplits == 4

InitFrame ==
  /\ ret = NoRet
  /\ tier = 0
  /\ artifacts = NoArtifacts
  /\ attempts = << >>
  /\ outcome = NoOutcome
  /\ conservative = NoOutcome
  /\ idx = 0
  /\ chosen = NoChoice
  /\ total_pages = 0
  /\ k = 0
  /\ kTried = << >>
  /\ temp_split_files = << >>
  /\ split_files = << >>
  /\ part = 0
  /\ outDir = {}
  /\ wsLive = << >>
  /\ wsReleased = {}
  /\ lastCleanup = "none"
  /\ invoked = {}

\* no batch: process_file (or one of its callees) is called on its own
NoBatch ==
  /\ unique_files = 0
  /\ fileIndex = 0
  /\ results = << >>
  /\ successful_count = 0
  /\ failed_count = 0

\* orchestrator.process_file(file_path, args) on one document, the tools free to
\* end every invocation in any way.  args.copy_small_files is read only for a
\* document below the target and args.max_splits only when splitting is allowed;
\* where they are not read they take their defaults.
Init ==
  /\ docSize \in DocSizes
  /\ target \in Targets
  /\ keep \in BOOLEAN
  /\ allowSplitting \in BOOLEAN
  /\ copySmall \in (IF docSize < target THEN BOOLEAN ELSE {FALSE})
  /\ maxSplits \in (IF allowSplitting THEN 2..MaxSplitsArg ELSE {DefaultMaxSplits})
  /\ producer = << >>
  /\ earlier = << >>
  /\ pc = "pf_entry"
  /\ InitFrame
  /\ NoBatch

Next ==
  \/ PF_Entry
  \/ IC_Entry
  \/ IC_Deconstruct
  \/ IC_Ocr
  \/ IC_First
  \/ IC_Last
  \/ IC_Back
  \/ IC_Seq
  \/ IC_Finally
  \/ PF_AfterSearch
  \/ SP_Entry
  \/ TS_Entry
  \/ TS_Split
  \/ AC_Entry
  \/ AC_Deconstruct
  \/ AC_Ocr
  \/ AC_Seq
  \/ AC_Finally
  \/ TS_AfterCompress
  \/ TS_Finally
  \/ SP_AfterAttempt
  \/ PF_AfterSplit

Spec == Init /\ [][Next]_vars

\* the source document as a file of its directory: file_path.name, not the copy of
\* any attempt, of the size measured at the start
SourceFile == File("original", 0, -1, docSize)

\* process_file with args.output_dir being the directory of the source document,
\* so that every write and every deletion in the output directory happens next to
\* the source
InitInPlace ==
  /\ docSize \in DocSizes
  /\ target \in Targets
  /\ keep \in BOOLEAN
  /\ allowSplitting \in BOOLEAN
  /\ copySmall \in (IF docSize < target THEN BOOLEAN ELSE {FALSE})
  /\ maxSplits \in (IF allowSplitting THEN 2..MaxSplitsArg ELSE {DefaultMaxSplits})
  /\ producer = << >>
  /\ earlier = << >>
  /\ pc = "pf_entry"
  /\ ret = NoRet
  /\ tier = 0
  /\ artifacts = NoArtifacts
  /\ attempts = << >>
  /\ outcome = NoOutcome
  /\ conservative = NoOutcome
  /\ idx = 0
  /\ chosen = NoChoice
  /\ total_pages = 0
  /\ k = 0
  /\ kTried = << >>
  /\ temp_split_files = << >>
  /\ split_files = << >>
  /\ part = 0
  /\ outDir = {SourceFile}
  /\ wsLive = << >>
  /\ wsReleased = {}
  /\ lastCleanup = "none"
  /\ invoked = {}
  /\ NoBatch

SpecInPlace == InitInPlace /\ [][Next]_vars

\* process_file as a sequential program whose every tool invocation returns: a
\* step that can be taken is taken
SpecTerminating == Init /\ [][Next]_vars /\ WF_vars(Next)

\* the outcomes of a reconstruct_pdf that never fails and always writes its file
FileOutcomes == { Ok(sz) : sz \in 1..MaxSize }

\* strategy.run_iterative_compression(pdf, out, target_size_mb) called directly, as
\* tests/test_strategy_simulation.py does, with a reconstruct_pdf that is a
\* function of the preset (fake_reconstruct)
InitSearch ==
  /\ docSize \in DocSizes
  /\ target \in Targets
  /\ keep = FALSE
  /\ allowSplitting = FALSE
  /\ copySmall = FALSE
  /\ maxSplits = DefaultMaxSplits
  /\ producer \in (IF determine_tier(docSize) = 0 THEN {<< >>}
                   ELSE [1..NumPresets(determine_tier(docSize)) -> FileOutcomes])
  /\ earlier = << >>
  /\ pc = "ic_entry"
  /\ InitFrame
  /\ NoBatch

NextSearch ==
  \/ IC_Entry
  \/ IC_Deconstruct
  \/ IC_Ocr
  \/ IC_First
  \/ IC_Last
  \/ IC_Back
  \/ IC_Seq
  \/ IC_Finally

SpecSearch == InitSearch /\ [][NextSearch]_vars

\* the file sizes of the repeated search: one that meets either target, one
\* between the target 2 and one and a half times it, one that is far from both
RepeatSizes == {1, 3, 4}

\* run_iterative_compression called twice on the same document with the same
\* deterministic reconstruct_pdf
InitRepeat ==
  /\ docSize \in DocSizes
  /\ target \in Targets
  /\ keep = FALSE
  /\ allowSplitting = FALSE
  /\ copySmall = FALSE
  /\ maxSplits = DefaultMaxSplits
  /\ producer \in (IF determine_tier(docSize) = 0 THEN {<< >>}
                   ELSE [1..NumPresets(determine_tier(docSize)) -> { Ok(sz) : sz \in RepeatSizes }])
  /\ earlier = << >>
  /\ pc = "ic_entry"
  /\ InitFrame
  /\ NoBatch

NextRepeat ==
  \/ NextSearch
  \/ IC_Again

SpecRepeat == InitRepeat /\ [][NextRepeat]_vars

\* the first statements of run_iterative_compression (lines 58-71) on a document of
\* any size up to MaxTierSize: the tier lookup
InitTier ==
  /\ docSize \in 0..MaxTierSize
  /\ target \in Targets
  /\ keep \in BOOLEAN
  /\ allowSplitting = FALSE
  /\ copySmall = FALSE
  /\ maxSplits = DefaultMaxSplits
  /\ producer = << >>
  /\ earlier = << >>
  /\ pc = "ic_entry"
  /\ InitFrame
  /\ NoBatch

SpecTier == InitTier /\ [][IC_Entry]_vars

\* orchestrator.validate_arguments: 2 <= args.max_splits <= 10
MaxSplitsLimit == 10

\* the first statements of run_splitting_protocol (lines 45-60) on a document of
\* any size up to MaxPlanSize, for every max_splits validate_arguments lets through
InitPlanner ==
  /\ docSize \in 1..MaxPlanSize
  /\ target = 1
  /\ keep = FALSE
  /\ allowSplitting = TRUE
  /\ copySmall = FALSE
  /\ maxSplits \in 2..MaxSplitsLimit
  /\ producer = << >>
  /\ earlier = << >>
  /\ pc = "sp_entry"
  /\ InitFrame
  /\ NoBatch

SpecPlanner == InitPlanner /\ [][SP_Entry]_vars

\* try_split_and_compress(pdf_path, output_dir, args, k, total_pages) up to the end
\* of its extraction loop (lines 77-102), for every page count up to MaxPlanPages
\* and every partition count from 1 to the largest max_splits
InitSplitPlan ==
  /\ docSize = 60
  /\ target = 1
  /\ keep = FALSE
  /\ allowSplitting = TRUE
  /\ copySmall = FALSE
  /\ maxSplits = MaxSplitsLimit
  /\ producer = << >>
  /\ earlier = << >>
  /\ pc = "ts_entry"
  /\ ret = NoRet
  /\ tier = 0
  /\ artifacts = NoArtifacts
  /\ attempts = << >>
  /\ outcome = NoOutcome
  /\ conservative = NoOutcome
  /\ idx = 0
  /\ chosen = NoChoice
  /\ total_pages \in 1..MaxPlanPages
  /\ k \in 1..MaxSplitsLimit
  /\ kTried = << >>
  /\ temp_split_files = << >>
  /\ split_files = << >>
  /\ part = 0
  /\ outDir = {}
  /\ wsLive = << >>
  /\ wsReleased = {}
  /\ lastCleanup = "none"
  /\ invoked = {}
  /\ NoBatch

NextSplitPlan ==
  \/ TS_Entry
  \/ TS_Split
  \/ TS_Finally

SpecSplitPlan == InitSplitPlan /\ [][NextSplitPlan]_vars

\* manual_mode.run_single_manual(pdf_path, dest_path, dpi, bg_downsample, jpeg2000,
\* keep_temp_on_failure) on one document
InitManual ==
  /\ docSize \in DocSizes
  /\ target \in Targets
  /\ keep \in BOOLEAN
  /\ allowSplitting = FALSE
  /\ copySmall = FALSE
  /\ maxSplits = DefaultMaxSplits
  /\ producer = << >>
  /\ earlier = << >>
  /\ pc = "sm_entry"
  /\ InitFrame
  /\ NoBatch

NextManual ==
  \/ SM_Entry
  \/ SM_Deconstruct
  \/ SM_Ocr
  \/ SM_Reconstruct
  \/ SM_Finally

SpecManual == InitManual /\ [][NextManual]_vars

\* every function that creates a scratch directory: process_file with its callees,
\* and run_single_manual
InitWorkspaces == Init \/ InitManual

NextWorkspaces ==
  \/ Next
  \/ NextManual

SpecWorkspaces == InitWorkspaces /\ [][NextWorkspaces]_vars

\* process_file without splitting, the tools free to fail, to raise and also never
\* to exit
InitBlocking ==
  /\ docSize \in DocSizes
  /\ target \in Targets
  /\ keep \in BOOLEAN
  /\ allowSplitting = FALSE
  /\ copySmall = FALSE
  /\ maxSplits = DefaultMaxSplits
  /\ producer = << >>
  /\ earlier = << >>
  /\ pc = "pf_entry"
  /\ InitFrame
  /\ NoBatch

NextBlocking ==
  \/ PF_Entry
  \/ IC_Entry
  \/ IC_Deconstruct
  \/ IC_Ocr
  \/ IC_First
  \/ IC_Last
  \/ IC_Back
  \/ IC_Seq
  \/ IC_Finally
  \/ PF_AfterSearch
  \/ RunCommandNeverReturns

SpecBlocking == InitBlocking /\ [][NextBlocking]_vars

\* orchestrator.process_directory(input_dir, args) on a directory of up to MaxFiles
\* documents, without splitting and with the default of the other options
InitBatch ==
  /\ unique_files \in 0..MaxFiles
  /\ fileIndex = 0
  /\ results = << >>
  /\ successful_count = 0
  /\ failed_count = 0
  /\ docSize = 0
  /\ target \in Targets
  /\ keep = FALSE
  /\ allowSplitting = FALSE
  /\ copySmall = FALSE
  /\ maxSplits = DefaultMaxSplits
  /\ producer = << >>
  /\ earlier = << >>
  /\ pc = "pd_entry"
  /\ InitFrame

NextBatch ==
  \/ PD_Entry
  \/ PF_Entry
  \/ IC_Entry
  \/ IC_Deconstruct
  \/ IC_Ocr
  \/ IC_First
  \/ IC_Last
  \/ IC_Back
  \/ IC_Seq
  \/ IC_Finally
  \/ PF_AfterSearch
  \/ PD_AfterFile

SpecBatch == InitBatch /\ [][NextBatch]_vars

---------------------------------------------------------------------------
(* Properties *)

InSearch == pc \in IterPCs /\ tier \in 1..3
SearchOver == pc \in {"ic_finally", "ic_done"}

\* the latest reconstruct_pdf invocation wrote a file (or reported one) of at most
\* the target size
Accepted == outcome.r = "true" /\ outcome.size <= target

\* the latest attempt of the running call
Latest == attempts[Len(attempts)]

\* the file "<stem>_compressed.pdf", when the output directory holds it, is the
\* copy of the attempt with preset i
CompressedIsFrom(i) ==
  \A f \in outDir : f.kind = "compressed" => f.src = i

NoFile(kind) == \A f \in outDir : f.kind # kind

\* ---- C1 ----------------------------------------------------------------
\* the producer's sizes do not grow along the preset index
Monotone ==
  \A i, j \in DOMAIN producer : i <= j => producer[i].size >= producer[j].size

\* the presets whose output meets the target
Fitting == { i \in 0..last_index(tier) : producer[i + 1].size <= target }

Lowest(S) == CHOOSE x \in S : \A y \in S : x <= y

\* C1: with a deterministic producer whose sizes are non-increasing along the preset
\* index and whose tools never fail, the search returns success exactly when some
\* preset of the tier meets the target, and the attempt it copies out is the one of
\* the smallest-index preset that meets it (linear scan and jump/backtrack alike).
C1_SelectsHighestQualityFit ==
  (pc = "ic_done" /\ tier \in 1..3 /\ artifacts.images /\ artifacts.hocr /\ Monotone)
    => /\ ret.kind = "return"
       /\ ret.success <=> Fitting # {}
       /\ ret.success =>
            /\ chosen.idx = Lowest(Fitting)
            /\ chosen.size = producer[chosen.idx + 1].size
            /\ CompressedIsFrom(Lowest(Fitting))
       /\ ~ret.success => NoFile("compressed")

\* a jump/backtrack search that ends on a preset strictly between the first and
\* the last (Scenario A of the specification)
C1_Witness ==
  /\ pc = "ic_done" /\ tier \in 1..3 /\ Monotone
  /\ ret.success
  /\ Len(attempts) > 3 /\ attempts[2].phase = "last"
  /\ chosen.idx > 0 /\ chosen.idx < last_index(tier)
  /\ \E f \in outDir : f.kind = "compressed" /\ f.src = chosen.idx

\* ---- C2 ----------------------------------------------------------------
\* C2: when try_split_and_compress has returned failure for a partition count, no
\* "<stem>_part<i>.pdf" is left in the output directory, and when
\* run_splitting_protocol has returned failure the output directory holds no
\* partition file.
C2_FailedSplitLeavesNoParts ==
  /\ (pc \in {"ts_finally", "ts_done"} /\ ~ret.success) => NoFile("part")
  /\ (pc = "sp_done" /\ ~ret.success) => NoFile("part")

\* a partition count fails at a later part, after an earlier part had been
\* compressed and given its final name
C2_Witness ==
  /\ pc = "ts_done" /\ ~ret.success
  /\ Len(split_files) >= 1
  /\ Len(temp_split_files) > Len(split_files)

\* ---- C3 ----------------------------------------------------------------
\* C3: a scratch directory is left in place at its release only when retention was
\* requested and the call that owned it failed.
C3_ScratchKeptOnlyOnFailure ==
  \A w \in wsReleased : w.kept => (keep /\ w.failed)

\* ---- C4 ----------------------------------------------------------------
\* C4: for a document of at most the target size, process_file invokes neither the
\* search nor the splitting protocol nor any tool, and returns success.
C4_SmallDocumentNeverSearched ==
  docSize <= target =>
    /\ invoked = {}
    /\ pc = "pf_done" => ret.success

\* ---- C5 ----------------------------------------------------------------
\* the attempts of the backtrack loop
BacktrackAttempts == { j \in 1..Len(attempts) : attempts[j].phase = "back" }

\* C5: one search performs at most n reconstructions for a tier of n presets, at
\* most n - 2 of them in the backtrack loop.
C5_AtMostNReconstructions ==
  InSearch =>
    /\ Len(attempts) <= NumPresets(tier)
    /\ Cardinality(BacktrackAttempts) <= NumPresets(tier) - 2

\* ---- C6 ----------------------------------------------------------------
\* the conservative attempt of the running search met the target
ConservativeMet ==
  InSearch /\ conservative.r = "true" /\ conservative.size <= target

\* C6: when the conservative attempt meets the target, the search returns success
\* with that attempt as "<stem>_compressed.pdf", and it is the only reconstruction
\* of the search.
C6_ConservativeSuccessEndsSearch ==
  ConservativeMet =>
    /\ attempts = << Attempt(0, "first") >>
    /\ SearchOver
    /\ ret = RetTrue("compressed")
    /\ chosen = [idx |-> 0, size |-> conservative.size]
    /\ CompressedIsFrom(0)

C6_Witness ==
  /\ ConservativeMet /\ pc = "ic_done"
  /\ conservative.size = target
  /\ \E f \in outDir : f.kind = "compressed" /\ f.src = 0

\* ---- C7 ----------------------------------------------------------------
\* the conservative attempt of the running search gave more than 1.5 x target
ConservativeFar ==
  InSearch /\ conservative.r = "true" /\ 2 * conservative.size > 3 * target

\* the search took the jump: its second reconstruction was the aggressive one
Jumped == InSearch /\ Len(attempts) >= 2 /\ attempts[2].phase = "last"

\* C7: after a conservative result of more than 1.5 x target the next
\* reconstruction uses the last preset of the tier, with nothing tried in between,
\* and the linear scan is never entered: conservative, aggressive, then backtrack.
C7_FarJumpsToAggressive ==
  ConservativeFar =>
    /\ pc \in {"ic_last", "ic_back", "ic_finally", "ic_done"}
    /\ attempts[1] = Attempt(0, "first")
    /\ Len(attempts) = 1 <=> pc = "ic_last"
    /\ Len(attempts) >= 2 => attempts[2] = Attempt(last_index(tier), "last")
    /\ \A j \in 3..Len(attempts) : attempts[j].phase = "back"

C7_Witness ==
  /\ ConservativeFar /\ pc = "ic_done"
  /\ Len(attempts) >= 4
  /\ attempts[2].idx = last_index(tier)

\* ---- C8 ----------------------------------------------------------------
\* the aggressive attempt has just failed to reconstruct or exceeded the target
AggressiveMissed ==
  /\ Jumped /\ Len(attempts) = 2
  /\ outcome.r = "false" \/ (outcome.r = "true" /\ outcome.size > target)

\* C8: when the aggressive attempt of the jump fails to reconstruct or exceeds the
\* target, the search returns failure at once: nothing more is reconstructed and
\* no output file is written.
C8_AggressiveMissFailsAtOnce ==
  /\ [](AggressiveMissed =>
          /\ SearchOver
          /\ ret = RetFalse
          /\ NoFile("compressed"))
  /\ [][AggressiveMissed => Len(attempts') <= 2]_vars

C8_Witness ==
  /\ AggressiveMissed /\ pc = "ic_done"
  /\ outcome.r = "true" /\ outcome.size = target + 1

\* ---- C9 ----------------------------------------------------------------
\* C9: backtracking tests the presets last-1, last-2, ... in this order, goes on
\* only after a candidate that met the target, and ends (unless an exception leaves
\* the search) in success with the candidate accepted last, the aggressive one when
\* none was.
C9_BacktrackStopsAtFirstMiss ==
  Jumped =>
    /\ \A j \in 3..Len(attempts) : attempts[j].idx = last_index(tier) - (j - 2)
    /\ pc = "ic_back" =>
         /\ Len(attempts) >= 3 => Accepted
         /\ idx = last_index(tier) - (Len(attempts) - 1)
         /\ chosen.idx = idx + 1
    /\ (SearchOver /\ Len(attempts) >= 3 /\ outcome.r # "raise") =>
         /\ ret = RetTrue("compressed")
         /\ chosen.idx = IF Accepted THEN Latest.idx ELSE Latest.idx + 1
         /\ Accepted => Latest.idx = 0
         /\ CompressedIsFrom(chosen.idx)

\* backtracking accepted a candidate and stopped at the next one, which exceeded
\* the target, with presets of lower index left untested
C9_Witness ==
  /\ Jumped /\ pc = "ic_done"
  /\ Len(attempts) = 4
  /\ outcome.r = "true" /\ outcome.size > target
  /\ chosen.idx = last_index(tier) - 1
  /\ Latest.idx > 0

\* ---- C10 ---------------------------------------------------------------
\* the conservative attempt of the running search gave a file above the target and
\* of at most 1.5 x target
ConservativeNear ==
  /\ InSearch /\ conservative.r = "true"
  /\ conservative.size > target /\ 2 * conservative.size <= 3 * target

\* C10: after a conservative result above the target and of at most 1.5 x target
\* the search tries presets 1, 2, ... in increasing order, returns success at the
\* first that meets the target without trying a later one, and makes no aggressive
\* or backtrack attempt.
C10_NearScansLinearly ==
  ConservativeNear =>
    /\ pc \in {"ic_seq", "ic_finally", "ic_done"}
    /\ attempts[1] = Attempt(0, "first")
    /\ \A j \in 2..Len(attempts) : attempts[j] = Attempt(j - 1, "seq")
    /\ pc = "ic_seq" => (idx = Len(attempts) /\ (Len(attempts) >= 2 => ~Accepted))
    /\ (Len(attempts) >= 2 /\ Accepted) =>
         /\ SearchOver
         /\ ret = RetTrue("compressed")
         /\ chosen = [idx |-> Latest.idx, size |-> outcome.size]
         /\ CompressedIsFrom(Latest.idx)

\* Scenario B of the specification: the second preset meets the target
C10_Witness ==
  /\ ConservativeNear /\ pc = "ic_done"
  /\ Len(attempts) = 2 /\ Accepted
  /\ chosen.idx = 1
  /\ \E f \in outDir : f.kind = "compressed" /\ f.src = 1

\* ---- C11 ---------------------------------------------------------------
\* the running search is on the linear scan: its second reconstruction was made by
\* the loop over presets 1 .. n-1
ScanPath == InSearch /\ Len(attempts) >= 2 /\ attempts[2].phase = "seq"

\* C11: on the linear scan the presets 1 .. n-1 are tried once each in index order,
\* a reconstruction that fails (returns False or raises) is passed over, the scan
\* goes on exactly as long as no attempt met the target, and a scan that ends
\* without such an attempt has tried all of them and returns failure with no output.
C11_ExhaustedScanFails ==
  ScanPath =>
    /\ Len(attempts) <= NumPresets(tier)
    /\ \A j \in 2..Len(attempts) : attempts[j] = Attempt(j - 1, "seq")
    /\ pc = "ic_seq" <=> (~Accepted /\ Len(attempts) < NumPresets(tier))
    /\ (SearchOver /\ ~Accepted) =>
         /\ Len(attempts) = NumPresets(tier)
         /\ ret = RetFalse
         /\ chosen = NoChoice
         /\ NoFile("compressed")

\* a scan entered after a conservative attempt that returned False, ended by a
\* last preset whose reconstruction failed as well
C11_Witness ==
  /\ ScanPath /\ pc = "ic_done"
  /\ conservative.r = "false"
  /\ outcome.r \in {"false", "raise"}
  /\ Len(attempts) = NumPresets(tier)
  /\ ret = RetFalse

\* ---- C12 ---------------------------------------------------------------
InAggressive == pc \in AggPCs
SearchEnded == pc \in {"ic_finally", "ic_done", "ac_finally", "ac_done"}

\* rasterization or text recognition of the running search call did not give its
\* artifact
ArtifactsFailed ==
  /\ InSearch \/ InAggressive
  /\ \/ artifacts.rasterCalls >= 1 /\ ~artifacts.images
     \/ artifacts.ocrCalls >= 1 /\ ~artifacts.hocr

\* C12: when rasterization or text recognition fails the search call ends in
\* failure (False, None, or the helper's exception) without any reconstruction and
\* without an output file, and the failed step is not run a second time.
C12_ArtifactFailureIsFatal ==
  ArtifactsFailed =>
    /\ SearchEnded
    /\ ret \in {RetFalse, RetRaise}
    /\ attempts = << >>
    /\ outcome = NoOutcome
    /\ chosen = NoChoice
    /\ artifacts.rasterCalls = 1
    /\ artifacts.ocrCalls = (IF artifacts.images THEN 1 ELSE 0)
    /\ NoFile("compressed")
    /\ NoFile("part_compressed")

\* text recognition returned None after a successful rasterization
C12_Witness ==
  /\ InSearch /\ pc = "ic_done"
  /\ artifacts.images /\ ~artifacts.hocr /\ artifacts.ocrCalls = 1
  /\ ret = RetFalse
  /\ attempts = << >>

\* ---- C13 ---------------------------------------------------------------
\* the preset list the running search call draws from
ListInUse == IF InAggressive THEN aggressive_params ELSE STRATEGIES[tier]

\* C13: in one search call the pages are rendered at most once and the text layer
\* is made at most once, both before the first reconstruction, at the highest DPI
\* of the preset list in use, so at a DPI no lower than that of any preset
\* reconstructed from them, and every reconstruction of the call works from these
\* same artifacts.
C13_ArtifactsOnceAtMaxDpi ==
  /\ []((InSearch \/ InAggressive) =>
         /\ artifacts.rasterCalls <= 1
         /\ artifacts.ocrCalls <= artifacts.rasterCalls
         /\ artifacts.rasterCalls = 1 =>
              /\ \A j \in 1..Len(ListInUse) : artifacts.dpi >= ListInUse[j].dpi
              /\ \E j \in 1..Len(ListInUse) : artifacts.dpi = ListInUse[j].dpi
         /\ attempts # << >> =>
              /\ artifacts.images /\ artifacts.hocr
              /\ artifacts.rasterCalls = 1 /\ artifacts.ocrCalls = 1
              /\ \A j \in 1..Len(attempts) :
                   ListInUse[attempts[j].idx + 1].dpi <= artifacts.dpi)
  /\ [][Len(attempts') > Len(attempts) => artifacts' = artifacts]_vars

\* a search that reconstructed three presets or more, one of them at a DPI below
\* that of the shared artifacts
C13_Witness ==
  /\ InSearch /\ pc = "ic_done"
  /\ Len(attempts) >= 3
  /\ artifacts.rasterCalls = 1 /\ artifacts.ocrCalls = 1
  /\ \E j \in 1..Len(attempts) : Preset(tier, attempts[j].idx).dpi < artifacts.dpi

\* ---- C14 ---------------------------------------------------------------
\* the tier lookup of the running call has been made
TierLookedUp == pc \in {"ic_deconstruct", "ic_done"}

\* C14: determine_tier gives every size one answer: tier 1 on [2, 10), tier 2 on
\* [10, 50), tier 3 from 50 on, and no tier (0) below 2; the three ranges are
\* disjoint and cover every size from 2 on, and a size without a tier ends the
\* search at once with (False, None).
C14_TierIsRangeLookup ==
  TierLookedUp =>
    /\ tier \in 0..3
    /\ tier = 0 <=> docSize < 2
    /\ tier = 1 <=> (2 <= docSize /\ docSize < 10)
    /\ tier = 2 <=> (10 <= docSize /\ docSize < 50)
    /\ tier = 3 <=> docSize >= 50
    /\ docSize >= 2 => tier \in 1..3
    /\ pc = "ic_done" <=> tier = 0
    /\ tier = 0 => ret = RetFalse /\ wsLive = << >>

\* a document of exactly 10 MB, the boundary between the first two tiers
C14_Witness ==
  /\ TierLookedUp
  /\ docSize = 10
  /\ tier = 2
  /\ pc = "ic_deconstruct"

\* ---- C15 ---------------------------------------------------------------
\* the least number of 25 MB chunks that hold the document
ChunksOf(size) == CHOOSE n \in 0..size : 25 * n >= size /\ 25 * (n - 1) < size

\* C15: for every document size and every max_splits from 2 on, the first partition
\* count is ceil(size / 25) brought into [2, max_splits]: never below 2, never
\* above max_splits, so the first attempt is always within the allowed range.
C15_InitialCountIsClamped ==
  /\ (pc = "ts_entry" /\ kTried = << >>) =>
       /\ k >= 2 /\ k <= maxSplits
       /\ k = (IF ChunksOf(docSize) < 2 THEN 2
               ELSE IF ChunksOf(docSize) > maxSplits THEN maxSplits
               ELSE ChunksOf(docSize))
  /\ (pc = "sp_done" /\ kTried = << >>) => total_pages = 0

\* a document of more chunks than max_splits allows: the count is cut to max_splits
C15_Witness ==
  /\ pc = "ts_entry"
  /\ kTried = << >>
  /\ ChunksOf(docSize) > maxSplits
  /\ maxSplits > 2
  /\ k = maxSplits

\* ---- C16 ---------------------------------------------------------------
\* the page ranges extracted so far, and the pages of one of them
Ranges == temp_split_files
PagesOf(r) == r[1]..r[2]

\* the extraction loop of the running attempt has been left normally
PlanComplete == pc = "ac_entry"

\* C16: the page ranges of a partition plan are non-empty, start at page 1, follow
\* one another without gap or overlap in ascending order, are at most k, and once
\* the plan is complete every page 1 .. total_pages lies in exactly one of them.
C16_PlanCoversEveryPageOnce ==
  /\ \A j \in 1..Len(Ranges) :
       /\ 1 <= Ranges[j][1] /\ Ranges[j][1] <= Ranges[j][2] /\ Ranges[j][2] <= total_pages
       /\ Ranges[j][1] = (IF j = 1 THEN 1 ELSE Ranges[j - 1][2] + 1)
  /\ Len(Ranges) <= k
  /\ PlanComplete =>
       /\ Len(Ranges) >= 1
       /\ Ranges[Len(Ranges)][2] = total_pages
       /\ \A p \in 1..total_pages :
            Cardinality({ j \in 1..Len(Ranges) : p \in PagesOf(Ranges[j]) }) = 1
       /\ \A j \in 1..Len(Ranges) : PagesOf(Ranges[j]) \subseteq 1..total_pages

\* five pages in four parts: parts of two pages, the last of one page, and the
\* fourth range left out because it would start beyond the last page
C16_Witness ==
  /\ PlanComplete
  /\ total_pages = 5 /\ k = 4
  /\ Ranges = << << 1, 2 >>, << 3, 4 >>, << 5, 5 >> >>

\* ---- C17 ---------------------------------------------------------------
\* run_splitting_protocol has returned
ProtocolOver == pc \in {"sp_done", "pf_done"} /\ "run_splitting_protocol" \in invoked

\* the partition counts attempted are initial_k, initial_k + 1, ... without a gap,
\* none below 2 and none above max_splits
CountsAscend ==
  \A j \in 1..Len(kTried) :
    /\ kTried[j] = calculate_split_strategy(docSize, maxSplits) + (j - 1)
    /\ 2 <= kTried[j] /\ kTried[j] <= maxSplits

\* a protocol that returned success did so on its latest attempt, all of whose
\* parts were compressed
SuccessOnLatest ==
  (ProtocolOver /\ ret.success) =>
    /\ kTried # << >>
    /\ k = kTried[Len(kTried)]
    /\ Len(temp_split_files) >= 1
    /\ Len(split_files) = Len(temp_split_files)

\* a new partition count is taken up only after the one before it has failed, and
\* none once the protocol has returned
NextCountOnlyAfterFailure ==
  /\ Len(kTried') > Len(kTried) =>
       \/ kTried = << >>
       \/ k' = k /\ k = kTried[Len(kTried)] + 1
  /\ (k' # k /\ kTried # << >>) => (pc = "ts_done" /\ ~ret.success /\ k' = k + 1)
  /\ ProtocolOver => kTried' = kTried

\* the statement as given: failure is returned only after the attempt with
\* k = max_splits has failed
C17_FailureOnlyAfterMaxSplits ==
  /\ CountsAscend
  /\ SuccessOnLatest
  /\ (ProtocolOver /\ ~ret.success) =>
       (kTried # << >> /\ kTried[Len(kTried)] = maxSplits)

\* C17: the splitting protocol attempts the partition counts initial_k,
\* initial_k + 1, ..., max_splits in this order, each only after the one before it
\* failed; it returns success at the first count all of whose parts were compressed
\* and attempts nothing after it; it returns failure only after the attempt with
\* max_splits parts has failed, or before any attempt when the page count is 0.
C17_CountsAscendToMaxSplits ==
  /\ [](/\ CountsAscend
        /\ SuccessOnLatest
        /\ (ProtocolOver /\ ~ret.success) =>
             IF total_pages = 0
             THEN kTried = << >>
             ELSE kTried # << >> /\ kTried[Len(kTried)] = maxSplits)
  /\ [][NextCountOnlyAfterFailure]_vars

\* the first partition count failed and the second one succeeded, with a larger
\* count still allowed
C17_Witness ==
  /\ pc = "sp_done" /\ ret.success
  /\ Len(kTried) = 2
  /\ kTried[2] = kTried[1] + 1
  /\ kTried[2] < maxSplits

\* ---- C18 ---------------------------------------------------------------
\* Scenario C of the specification: a 60 MB document, max_splits = 4, a page count
\* that is known, and every partition count attempted failed
ScenarioC ==
  /\ ProtocolOver /\ ~ret.success
  /\ docSize = 60 /\ maxSplits = 4
  /\ total_pages >= 1

\* the statement as given: the counts attempted are 2, 3 and 4
C18_ScenarioTriesTwoThreeFour ==
  ScenarioC => (kTried = << 2, 3, 4 >> /\ outDir = {})

\* C18: for a 60 MB document with max_splits = 4 in which some part fails at every
\* partition count, the protocol attempts 3 parts (ceil(60 / 25)), then 4, and
\* returns failure with no file left in the output directory.
C18_ScenarioTriesThreeFour ==
  ScenarioC => (kTried = << 3, 4 >> /\ outDir = {})

C18_Witness ==
  /\ ScenarioC /\ pc = "sp_done"
  /\ kTried = << 3, 4 >>
  /\ Len(temp_split_files) >= 2
  /\ outDir = {}

\* ---- C19 ---------------------------------------------------------------
\* the part numbers of the files "<stem>_part<i>.pdf" in the output directory
PartsPresent == { f.part : f \in { g \in outDir : g.kind = "part" } }

\* the output directory holds a single-file result and split results together
MixedOutput == ~NoFile("compressed") /\ ~NoFile("part")

\* the splitting protocol was started only after a search that wrote no output
SplitOnlyAfterFailedSearch ==
  "run_splitting_protocol" \in invoked => NoFile("compressed")

\* the partition files present are none, or all those of the successful attempt
WholePartitionSet ==
  \/ PartsPresent = {}
  \/ ret.success /\ PartsPresent = 1..Len(temp_split_files)

\* C19: once process_file has returned, the output directory holds no mix of a
\* single-file result and partition files and no partial set of partition files,
\* the splitting protocol having run only after a search that wrote no output.
C19_NoMixedOrPartialOutput ==
  /\ SplitOnlyAfterFailedSearch
  /\ pc = "pf_done" =>
       /\ ~MixedOutput
       /\ WholePartitionSet

\* ---- C20 ---------------------------------------------------------------
\* the number of documents recorded as successful
Successes == Cardinality({ j \in 1..Len(results) : results[j].success })

\* a document of the batch is being processed
InFile == pc \notin {"pd_entry", "pd_done"}

\* a result is recorded only when process_file has returned, and it is what
\* process_file returned; nothing recorded is dropped; documents are taken up one
\* by one
RecordsWhatWasReturned ==
  /\ Len(results') > Len(results) =>
       /\ pc = "pf_done"
       /\ results' = Append(results, [file |-> fileIndex, success |-> ret.success])
  /\ Len(results') >= Len(results)
  /\ fileIndex' # fileIndex => (fileIndex' = fileIndex + 1 /\ pc' = "pf_entry")

\* C20: process_directory takes the documents one after the other, each exactly
\* once; the one being processed is the next after those recorded; what is
\* recorded for a document is what process_file returned for it, whether it
\* succeeded, failed or ended on an exception; no failure ends the batch early,
\* and at the end the two counts add up to the number of documents.
C20_BatchProcessesEveryFileOnce ==
  /\ [](/\ \A j \in 1..Len(results) : results[j].file = j
        /\ Len(results) <= unique_files
        /\ successful_count = Successes
        /\ successful_count + failed_count = Len(results)
        /\ InFile => fileIndex = Len(results) + 1
        /\ pc = "pd_done" =>
             /\ Len(results) = unique_files
             /\ successful_count + failed_count = unique_files)
  /\ [][RecordsWhatWasReturned]_vars

\* a batch of two documents whose first failed and whose second succeeded
C20_Witness ==
  /\ pc = "pd_done"
  /\ unique_files = 2
  /\ results = << [file |-> 1, success |-> FALSE], [file |-> 2, success |-> TRUE] >>
  /\ successful_count = 1 /\ failed_count = 1

\* ---- C21 ---------------------------------------------------------------
\* the tools that render, recognize, reconstruct and extract pages
ProcessingTools == {"pdftoppm", "tesseract", "recode_pdf", "qpdf"}

\* C21: for a document below 2 MB, to which no tier applies, process_file invokes
\* no rendering, text recognition, reconstruction or page extraction, whatever the
\* target and whether or not splitting is allowed.
C21_NoTierNoProcessing ==
  docSize < 2 => invoked \cap ProcessingTools = {}

\* ---- C22 ---------------------------------------------------------------
\* C22: every tool invocation is cut off by a timeout and then counts as failed, so
\* the search is never left waiting on a tool that does not return.
C22_NoInvocationBlocks ==
  pc # "blocked"

\* ---- C23 ---------------------------------------------------------------
\* the call built its images and its hOCR file
Built(a) == a.images /\ a.hocr

\* the second of two calls on the same document has ended
SecondRunOver == pc = "ic_done" /\ earlier # << >>

C24_NoInvocationRepeated ==
  InSearch =>
    /\ artifacts.rasterCalls <= 1
    /\ artifacts.ocrCalls <= 1
    /\ \A i, j \in 1..Len(attempts) : attempts[i].idx = attempts[j].idx => i = j

\* ---- C25 ---------------------------------------------------------------
\* pdfinfo has been asked for the page count and the count came back as zero
PageCountUnknown == "pdfinfo" \in invoked /\ total_pages = 0

\* the functions of the splitting protocol that own a scratch directory
SplitOwners == {"try_split_and_compress", "run_aggressive_compression"}

\* C25: when the page count is reported as zero, run_splitting_protocol returns
\* failure at once: no partition count is computed or attempted, no page range is
\* extracted, no scratch directory is created and nothing is compressed.
C25_ZeroPagesFailsAtOnce ==
  PageCountUnknown =>
    /\ pc \in {"sp_done", "pf_done"}
    /\ ret = RetFalse
    /\ k = 0
    /\ kTried = << >>
    /\ temp_split_files = << >>
    /\ "qpdf" \notin invoked
    /\ \A j \in 1..Len(wsLive) : wsLive[j] \notin SplitOwners
    /\ \A w \in wsReleased : w.owner \notin SplitOwners
    /\ NoFile("part")

C25_Witness ==
  PageCountUnknown /\ pc = "sp_done" /\ docSize = 60

\* ---- C26 ---------------------------------------------------------------
\* this step is a reconstruct_pdf invocation
Reconstructs == Len(attempts') = Len(attempts) + 1

\* the invocation of this step wrote a file of exactly the target size
OnTarget == outcome'.r = "true" /\ outcome'.size = target

\* the attempt of this step becomes the chosen one and the call does not fail on it
AcceptsAttempt ==
  /\ chosen' = [idx |-> attempts'[Len(attempts')].idx, size |-> outcome'.size]
  /\ ret' # RetFalse

\* the invocation of this step is the conservative one and its file is exactly one
\* and a half times the target
ConservativeAtThreshold ==
  /\ attempts'[Len(attempts')].phase = "first"
  /\ outcome'.r = "true"
  /\ 2 * outcome'.size = 3 * target

\* C26: an attempt whose size equals the target is accepted at every decision point
\* (conservative, aggressive, backtrack, linear scan, partition), and a conservative
\* result of exactly 1.5 x target is not far: the linear scan follows, not the jump.
C26_ComparisonsAreNotStrict ==
  [][Reconstructs =>
       /\ OnTarget => AcceptsAttempt
       /\ ConservativeAtThreshold => (pc' = "ic_seq" /\ idx' = 1)]_vars

C26_Witness ==
  /\ conservative.r = "true"
  /\ 2 * conservative.size = 3 * target
  /\ Len(attempts) = 2
  /\ attempts[2].phase = "seq"
  /\ outcome.r = "true"
  /\ outcome.size = target
  /\ chosen.idx = 1
  /\ ret.success

\* ---- C27 ---------------------------------------------------------------
\* the function whose call has just ended, when it is one that creates a scratch
\* directory
ExitPCs == {"ic_done", "ac_done", "ts_done", "sm_done"}

Exited ==
  CASE pc = "ic_done" -> "run_iterative_compression"
    [] pc = "ac_done" -> "run_aggressive_compression"
    [] pc = "ts_done" -> "try_split_and_compress"
    [] pc = "sm_done" -> "run_single_manual"
    [] OTHER -> "none"

\* no scratch directory of the function f is still held by a running call
NoneLiveOf(f) == \A j \in 1..Len(wsLive) : wsLive[j] # f

\* C27: without keep_temp_on_failure, when a call that created a scratch directory
\* ends, on whatever path, the directory has been deleted.
C27_WorkspaceDeletedOnExit ==
  (~keep /\ pc \in ExitPCs) =>
    /\ NoneLiveOf(Exited)
    /\ lastCleanup \in {"none", "removed"}

\* C27, amended: without keep_temp_on_failure, when a call that created a scratch
\* directory ends, on whatever path, the directory has been handed to
\* cleanup_directory: it is deleted unless the deletion itself failed.
C27_WorkspaceCleanedUpOnExit ==
  (~keep /\ pc \in ExitPCs) =>
    /\ NoneLiveOf(Exited)
    /\ lastCleanup # "kept"
    /\ \A w \in wsReleased : ~w.kept
    /\ (pc = "ic_done" /\ tier = 0) \/ (\E w \in wsReleased : w.owner = Exited)

C27_Witness ==
  /\ ~keep
  /\ pc = "ic_done"
  /\ ret.kind = "raise"
  /\ lastCleanup = "rmtree_failed"
  /\ attempts # << >>

\* ---- C28 ---------------------------------------------------------------
\* the finally blocks that release a scratch directory
FinallyPCs == {"ic_finally", "ac_finally", "ts_finally", "sm_finally"}

\* this step is a finally block whose deletion of the scratch directory fails
DeletionFails == pc \in FinallyPCs /\ lastCleanup' = "rmtree_failed"

\* C28: a failed deletion of the scratch directory is not propagated: the call ends
\* with the result (success flag, output path or pending exception) it had when it
\* entered the finally block, and the output directory is as it was.
C28_DeletionFailureNotPropagated ==
  [][DeletionFails =>
       /\ ret' = ret
       /\ outDir' = outDir
       /\ pc' \in ExitPCs]_vars

C28_Witness ==
  /\ pc = "ic_done"
  /\ lastCleanup = "rmtree_failed"
  /\ ret = RetTrue("compressed")
  /\ ~NoFile("compressed")

\* ---- C29 ---------------------------------------------------------------
\* C29: a failure inside a reconstruct_pdf invocation of run_iterative_compression,
\* a False return or an exception, in whichever attempt, never leaves the search as
\* an exception: once an attempt has been made the call does not end by raising.
C29_AttemptFailureNeverRaised ==
  (InSearch /\ attempts # << >>) => ret.kind # "raise"

\* ---- C30 ---------------------------------------------------------------
\* the conservative reconstruct_pdf of the running search returned False: the tool
\* failed
ConservativeErrored == InSearch /\ conservative.r = "false"

\* C30: when the conservative reconstruct_pdf returns False, the search does not
\* return on it and does not jump to the last preset: the next reconstruction is
\* the linear scan's first, params_sequence[1].
C30_ConservativeErrorFallsToScan ==
  ConservativeErrored =>
    /\ Len(attempts) = 1 => (pc = "ic_seq" /\ idx = 1 /\ ret = NoRet)
    /\ Len(attempts) >= 2 => attempts[2] = Attempt(1, "seq")
    /\ \A j \in 1..Len(attempts) : attempts[j].phase \in {"first", "seq"}

C30_Witness ==
  /\ ConservativeErrored
  /\ Len(attempts) = 2
  /\ outcome.r = "true"
  /\ ret = RetTrue("compressed")
  /\ chosen.idx = 1

\* ---- C31 ---------------------------------------------------------------
\* the running (or just ended) partition count is past its extraction loop with a
\* page range still to extract: an extraction failed
ExtractionFailed ==
  /\ pc \in {"ts_finally", "ts_done"} \cup AggPCs
  /\ SplitLoopRuns(Len(temp_split_files))

\* a part of the running partition count is being, or has been, compressed
PartCompressionBegun ==
  \/ pc \in AggPCs
  \/ split_files # << >>
  \/ \E j \in 1..Len(attempts) : attempts[j].phase = "aggressive"

\* C31: when qpdf fails on a page range, try_split_and_compress returns False for
\* that partition count at once: no further range is extracted and no part of
\* that count is compressed; every extraction precedes every compression.
C31_ExtractionFailureEndsAttempt ==
  /\ ExtractionFailed =>
       (pc \in {"ts_finally", "ts_done"} /\ ret = RetFalse /\ ~PartCompressionBegun)
  /\ pc = "ts_split" => ~PartCompressionBegun

C31_Witness ==
  /\ pc = "ts_done"
  /\ SplitLoopRuns(Len(temp_split_files))
  /\ Len(temp_split_files) = 1
  /\ ret = RetFalse

\* ---- C32 ---------------------------------------------------------------
\* C32: for a partition count k with 2 <= k <= total_pages the extraction loop,
\* left normally, has extracted exactly k page ranges.
C32_AttemptMakesKParts ==
  (PlanComplete /\ 2 <= k /\ k <= total_pages) => Len(temp_split_files) = k

\* ---- C33 ---------------------------------------------------------------
\* run_aggressive_compression has ended
AggressiveOver == pc \in {"ac_finally", "ac_done"}

\* C33: a part is compressed by run_aggressive_compression with its own images and
\* hOCR file, made once at the highest dpi of the aggressive list; it reconstructs
\* the entries of that list in list order without jump or backtrack, returns
\* success at the first attempt of at most the target size and failure once the
\* list is exhausted; the parts are compressed one at a time, in part order.
C33_PartsUseAggressiveListInOrder ==
  pc \in AggPCs =>
    /\ artifacts.rasterCalls <= 1 /\ artifacts.ocrCalls <= 1
    /\ artifacts.rasterCalls = 1 => artifacts.dpi = 150
    /\ attempts # << >> => (Built(artifacts) /\ artifacts.rasterCalls = 1 /\ artifacts.ocrCalls = 1)
    /\ Len(attempts) <= Len(aggressive_params)
    /\ \A j \in 1..Len(attempts) : attempts[j] = Attempt(j - 1, "aggressive")
    /\ (AggressiveOver /\ ret.kind = "return" /\ ret.success) =>
         /\ outcome.r = "true" /\ outcome.size <= target
         /\ chosen = [idx |-> Len(attempts) - 1, size |-> outcome.size]
    /\ (AggressiveOver /\ ret = RetFalse /\ Built(artifacts)) =>
         /\ Len(attempts) = Len(aggressive_params)
         /\ ~(outcome.r = "true" /\ outcome.size <= target)
    /\ (pc = "ac_seq" /\ attempts # << >>) => ~(outcome.r = "true" /\ outcome.size <= target)
    /\ split_files = [j \in 1..part |-> j]
    /\ part < Len(temp_split_files)

C33_Witness ==
  /\ pc = "ac_done"
  /\ part = 1
  /\ Len(attempts) = 3
  /\ ret.kind = "return" /\ ret.success
  /\ docSize = 10
  /\ artifacts.dpi # max_dpi(determine_tier(docSize))

\* ---- C34 ---------------------------------------------------------------
\* the search has returned True with a path
SearchSucceeded == SearchOver /\ ret.kind = "return" /\ ret.success

\* C34: run_iterative_compression writes to the output directory only for the
\* winner: nothing while reconstructions are still to come, nothing at all when it
\* returns failure or raises, and on success at most the one file
\* "<stem>_compressed.pdf", a copy of the chosen attempt.
C34_OutputWrittenOnlyForWinner ==
  InSearch =>
    /\ ~SearchOver => outDir = {}
    /\ (SearchOver /\ ~SearchSucceeded) => outDir = {}
    /\ SearchSucceeded => outDir \subseteq {File("compressed", 0, chosen.idx, chosen.size)}

C34_Witness ==
  /\ InSearch
  /\ SearchSucceeded
  /\ Len(attempts) >= 4
  /\ chosen.idx # attempts[Len(attempts)].idx
  /\ outDir = {File("compressed", 0, chosen.idx, chosen.size)}

\* ---- C35 ---------------------------------------------------------------
\* C35: a reported success has its outputs: when run_iterative_compression returns
\* (True, path) the output directory holds "<stem>_compressed.pdf" with a size of
\* at most the target, and when run_splitting_protocol returns True it holds
\* "<stem>_part<i>.pdf" for every part of the successful partition count.
C35_SuccessHasItsOutputs ==
  /\ (InSearch /\ SearchSucceeded) =>
       \E f \in outDir : f.kind = "compressed" /\ f.size <= target
  /\ (pc = "sp_done" /\ ret.success) =>
       \A n \in 1..Len(temp_split_files) : \E f \in outDir : f.kind = "part" /\ f.part = n

\* ---- C36 ---------------------------------------------------------------
\* C36: for a document of at least the target size, process_file starts the
\* splitting protocol only with allow_splitting set and only once the search has
\* ended without success, and it returns failure with allow_splitting set only
\* after the splitting protocol has run: every unsuccessful search, one that
\* raised included, is escalated.
C36_UnsuccessfulSearchIsEscalated ==
  docSize >= target =>
    /\ "run_splitting_protocol" \in invoked =>
         (allowSplitting /\ pc \notin IterPCs /\ pc # "pf_entry")
    /\ (pc = "pf_done" /\ allowSplitting /\ ~ret.success) =>
         "run_splitting_protocol" \in invoked

\* ---- C37 ---------------------------------------------------------------
\* C37: no step of process_file or of its callees modifies or deletes the source
\* document, also when the output directory is the directory of the source: the
\* file is there, unchanged, at every moment and after whatever outcome.
C37_SourceIsNeverTouched ==
  /\ SourceFile \in outDir
  /\ \A f \in outDir : f.kind = "original" => f = SourceFile

C37_Witness ==
  /\ pc = "pf_done"
  /\ SourceFile \in outDir
  /\ Len(kTried) >= 2
  /\ ~NoFile("part")
  /\ wsReleased # {}

\* ---- C38 ---------------------------------------------------------------
\* the work done so far stays within the bounds of the loops: a search makes at
\* most one reconstruction more than its tier has presets, the protocol attempts at
\* most max_splits - initial_k + 1 partition counts and none twice, a partition
\* count extracts at most k page ranges, and a part is reconstructed at most as
\* often as aggressive_params has entries
WorkIsBounded ==
  /\ InSearch => Len(attempts) <= NumPresets(tier) + 1
  /\ Len(kTried) <= maxSplits - calculate_split_strategy(docSize, maxSplits) + 1
  /\ \A i, j \in 1..Len(kTried) : kTried[i] = kTried[j] => i = j
  /\ Len(temp_split_files) <= k
  /\ pc \in AggPCs => Len(attempts) <= Len(aggressive_params)

\* C38: when every tool invocation returns, process_file terminates, and on the
\* way every loop stays within its bound and no partition count is repeated.
C38_ProcessFileTerminates ==
  /\ <>(pc = "pf_done")
  /\ []WorkIsBounded

C38_Witness ==
  /\ pc = "pf_done"
  /\ Len(kTried) = 3
  /\ maxSplits = 4
  /\ ~ret.success

\* ---- C39 ---------------------------------------------------------------
\* a preset with a positive dpi, a background downsampling of at least 1 and one of
\* the two JPEG2000 encoders
WellFormed(p) ==
  /\ p.dpi > 0
  /\ p.bg_downsample >= 1
  /\ p.jpeg2000_encoder \in {"openjpeg", "grok"}

\* from preset p to the next preset q the dpi does not rise, the background
\* downsampling does not fall, and one of the two changes
MoreAggressive(p, q) ==
  /\ q.dpi <= p.dpi
  /\ q.bg_downsample >= p.bg_downsample
  /\ q.dpi # p.dpi \/ q.bg_downsample # p.bg_downsample

TablesOrdered ==
  \A t \in DOMAIN STRATEGIES :
    /\ \A j \in 1..Len(STRATEGIES[t]) : WellFormed(STRATEGIES[t][j])
    /\ \A j \in 1..(Len(STRATEGIES[t]) - 1) :
         MoreAggressive(STRATEGIES[t][j], STRATEGIES[t][j + 1])

\* C39: every preset of every tier is well formed and each tier's list runs from
\* conservative to aggressive; the tables are the same in every state of a search
\* or a split, whose every reconstruction takes its preset from the table of the
\* tier and whose images are made at the dpi of the tier's first preset.
C39_TablesAreOrderedAndStatic ==
  /\ TablesOrdered
  /\ InSearch =>
       /\ \A j \in 1..Len(attempts) : (attempts[j].idx + 1) \in DOMAIN STRATEGIES[tier]
       /\ artifacts.rasterCalls = 1 => artifacts.dpi = STRATEGIES[tier][1].dpi

C39_Witness ==
  /\ InSearch
  /\ tier = 2
  /\ attempts # << >>
  /\ attempts[Len(attempts)].idx = 5
  /\ artifacts.dpi = 300

====
